---- MODULE Spec2Model ----
(***************************************************************************)
(* Checkout order-validation and submission pipeline of the storefront     *)
(* (src/src/app/api/checkout/route.ts), its retry executor, the order      *)
(* lifecycle helpers (src/src/app/api/revalidate/route.ts, lines 400-610,  *)
(* the text of lib/types), the logger's request context (lib/logger), the  *)
(* admin rate limiter (lib/auth) and the revalidate endpoint.              *)
(*                                                                         *)
(* The specifications share the variables:                                 *)
(*   Spec           one checkout request, from the parsed body to the      *)
(*                  response, with every backend call as a suspension      *)
(*                  point                                                  *)
(*   SpecRetry      withRetry(createOrder) alone, over the full set of     *)
(*                  backend answers                                        *)
(*   SpecLifecycle  the pure order-lifecycle helpers applied to every      *)
(*                  input                                                  *)
(*   SpecOrderInit  one checkout request of a one-item cart, together with *)
(*                  createInitialStatusHistory                             *)
(*   SpecSnapshot   createPriceSnapshot over every price and quantity      *)
(*   SpecConcurrent several checkout requests interleaving in one process  *)
(*   SpecRateLimit  checkAdminRateLimit called as time passes              *)
(*   SpecRevalidate the revalidate endpoint behind its admin gate          *)
(*   SpecBackend    several checkout requests against a backend that keeps *)
(*                  stock and orders                                       *)
(*   SpecEnv        the environment validation while process.env changes   *)
(*   SpecCart       the browser's cart store and checkout form             *)
(*   SpecHistory    the status histories of the orders                     *)
(***************************************************************************)
EXTENDS Integers, Sequences, FiniteSets, Bags, TLC

(***************************************************************************)
(* Bounds of the model.                                                    *)
(***************************************************************************)
MaxItems == 2
NumProducts == 2
MaxQty == 2
MaxStock == 1
NumVariations == 1
MaxOrderId == 2
MaxSnapshotQty == 3
NumRequests == 2
NumAdmins == 2
TickMs == 30000
MaxTicks == 3
MaxAssertCalls == 2

(***************************************************************************)
(* Program constants.                                                      *)
(***************************************************************************)
maxRetries == 2
initialDelayMs == 100
maxDelayMs == 1000
jitterMs == 50
RATE_LIMIT_WINDOW == 60000
RATE_LIMIT_MAX_REQUESTS == 10

\* JavaScript null of stock_quantity: number | null
Null == -1

VARIABLES
  \* ---- one checkout request (POST /api/checkout) ----
  env,                \* "ok" | "invalid" (assertEnvironment throws) | "nocreds"
  body,               \* the request body as request.json() yields it
  pc,                 \* where the handler is suspended
  productResults,     \* per line item: "pending" or the settled fetch result
  productsToValidate, \* the Map, as its entries in insertion order
  validationErrors,   \* the array validationErrors
  variationResults,   \* per line item: NotFetched, Pending or the settled result
  priceSnapshot,      \* NoSnapshot or the snapshot built at line 550
  payload,            \* NoPayload or the order payload built at line 589
  calls,              \* every backend call issued and the snapshot step, in order
  attempt,            \* withRetry's loop variable
  attemptLog,         \* the outcome of each createOrder call so far
  sleepMs,            \* the delay of the sleep in progress (0: none)
  thrown,             \* NoError or the error withRetry threw
  response,           \* NoResponse or the NextResponse returned
  requestId,          \* the handler's const requestId (NoRequestId: not started)
  \* ---- lib/logger: the module-level request context ----
  _requestId,         \* NoRequestId stands for undefined
  \* ---- order lifecycle helpers ----
  fromStatus, toStatus, transitionResult,
  orderId, actorArg, historyEntry,
  \* ---- several checkout requests in one process ----
  requests,           \* per request: the handler's locals and its position
  logEntries,         \* what createLogEntry has written, in order
  \* ---- lib/auth: the admin rate limiter ----
  adminActionLimits,  \* the Map, per admin id: NoRecord or {count, resetTime}
  now,                \* Date.now()
  admitted,           \* per admin id: the times of the calls that returned
                      \* true, as far back as one window
  rateLimitResult,    \* the last call: who asked and what was returned
  \* ---- the revalidate endpoint ----
  REVALIDATION_SECRET, \* process.env.REVALIDATION_SECRET ("undefined": unset)
  revalidateRequest,  \* the request being handled, or the last one handled
  revalidatePc,       \* "idle" | "parsing" (POST at await request.json())
  revalidations,      \* the revalidatePath / revalidateTag calls made for it
  revalidateResponse, \* the status returned for it (0: none yet)
  \* ---- the backend (WooCommerce), as the checkout handler assumes it ----
  backendStock,       \* stock_quantity of product 1
  backendOrders,      \* the orders created: the bag of the payloads received
  \* ---- the environment validation (lib/auth.ts lines 515-667) ----
  nodeEnv,            \* what getEnvironment() returns
  processEnv,         \* the keys of process.env that are set
  serverProcess,      \* "loading" | "running" | "exited" (process.exit(1))
  _startupValidated, _startupValid,
  assertCalls,        \* how many times assertEnvironment was called
  assertResult,       \* "uncalled" | "returned" | "threw": the last call
  \* ---- the browser: CartContext and CheckoutClient ----
  cartItems,          \* the state cartItems: a list of {id, quantity}
  lastCartOp,         \* the cart function called last, with its arguments
  isSubmitting,       \* handleSubmit is suspended at its fetch
  clientLineItems,    \* the const line_items of the handleSubmit in progress
  clientResponse,     \* what the last handleSubmit received
  \* ---- the orders' status histories (_order_status_history) ----
  statusHistory       \* per order id: its history entries, oldest first

requestVars == <<env, body, pc, productResults, productsToValidate,
                 validationErrors, variationResults, priceSnapshot, payload,
                 calls, attempt, attemptLog, sleepMs, thrown, response,
                 requestId>>
checkoutVars == <<requestVars, _requestId>>
lifecycleVars == <<fromStatus, toStatus, transitionResult, orderId, actorArg,
                   historyEntry>>
concurrentVars == <<requests, logEntries>>
rateLimitVars == <<adminActionLimits, now, admitted, rateLimitResult>>
revalidateVars == <<REVALIDATION_SECRET, revalidateRequest, revalidatePc,
                    revalidations, revalidateResponse>>
backendVars == <<backendStock, backendOrders>>
\* the variables outside the request handlers of the server
envVars == <<nodeEnv, processEnv, serverProcess, _startupValidated,
             _startupValid, assertCalls, assertResult>>
clientVars == <<cartItems, lastCartOp, isSubmitting, clientLineItems,
                clientResponse>>
moreVars == <<backendVars, envVars, clientVars, statusHistory>>
notCheckoutVars == <<lifecycleVars, concurrentVars, rateLimitVars,
                     revalidateVars, moreVars>>
notLifecycleVars == <<checkoutVars, concurrentVars, rateLimitVars,
                      revalidateVars, moreVars>>
vars == <<checkoutVars, lifecycleVars, concurrentVars, rateLimitVars,
          revalidateVars, moreVars>>

(***************************************************************************)
(* ORDER LIFECYCLE                                                         *)
(***************************************************************************)
OrderStatus == {"pending", "paid", "failed", "cancelled", "refunded",
                "fulfilled", "completed"}

\* faulty variant: a failed order may be paid again
VALID_TRANSITIONS_FailedToPaid(s) ==
  CASE s = "pending"   -> {"paid", "failed", "cancelled"}
    [] s = "paid"      -> {"fulfilled", "refunded", "cancelled"}
    [] s = "failed"    -> {"cancelled", "paid"}
    [] s = "cancelled" -> {"refunded"}
    [] s = "refunded"  -> {}
    [] s = "fulfilled" -> {"completed", "refunded"}
    [] s = "completed" -> {}

VALID_TRANSITIONS(s) ==
  CASE s = "pending"   -> {"paid", "failed", "cancelled"}
    [] s = "paid"      -> {"fulfilled", "refunded", "cancelled"}
    [] s = "failed"    -> {"cancelled"}
    [] s = "cancelled" -> {"refunded"}
    [] s = "refunded"  -> {}
    [] s = "fulfilled" -> {"completed", "refunded"}
    [] s = "completed" -> {}

isValidStatusTransition(from, to) == to \in VALID_TRANSITIONS(from)

\* actor = "undefined" is the call with the parameter left out (default 'customer')
createInitialStatusHistory(id, actor) ==
  [fromStatus |-> "null",
   toStatus   |-> "pending",
   reasonId   |-> id,
   actor      |-> IF actor = "undefined" THEN "customer" ELSE actor]

NoEntry == [fromStatus |-> "none", toStatus |-> "none", reasonId |-> 0,
            actor |-> "none"]

(***************************************************************************)
(* CHECKOUT: inputs                                                        *)
(***************************************************************************)
ProductIds == 1..NumProducts
\* variation_id 0 stands for a line item without variation_id: the handler
\* tests `if (item.variation_id)`, which treats 0 and undefined alike
LineItem == [product_id : ProductIds, quantity : 1..MaxQty,
             variation_id : 0..NumVariations]
Carts == UNION {[1..n -> LineItem] : n \in 1..MaxItems}

Addresses == {"addrA", "addrB"}
\* line_items of the body: absent, null, a non-array value, or an array
MalformedBodies ==
  [json : {TRUE}, billing : {"undefined"} \cup Addresses,
   line_items_kind : {"undefined", "null", "nonarray"}, line_items : {<<>>}]
  \cup [json : {TRUE}, billing : {"undefined"} \cup Addresses,
        line_items_kind : {"array"}, line_items : {<<>>}]
  \cup [json : {TRUE}, billing : {"undefined"},
        line_items_kind : {"array"}, line_items : Carts]
WellFormedBodies ==
  [json : {TRUE}, billing : Addresses, line_items_kind : {"array"},
   line_items : Carts]
UnparseableBody == [json |-> FALSE, billing |-> "undefined",
                    line_items_kind |-> "undefined", line_items |-> <<>>]
Bodies == {UnparseableBody} \cup MalformedBodies \cup WellFormedBodies

\* What fetchProduct / fetchVariation settle to: a thrown failure (network
\* error or a non-2xx, non-404 status), null (404), or the record
StockQuantities == {Null} \cup 1..MaxStock
\* price: string is held as the number of thousandths it denotes ("19.99" is
\* 19990, "0.004" is 4); EmptyPrice is the string "", which WooCommerce sends
\* for a product without a price
EmptyPrice == -1
Prices == {EmptyPrice, 0, 4, 5000, 19990}
\* the price of the records one checkout request draws from
CorePrices == {19990}
FetchFailure == [kind |-> "error", purchasable |-> TRUE,
                 stock_status |-> "instock", stock_quantity |-> Null,
                 price |-> EmptyPrice]
FetchNotFound == [kind |-> "notfound", purchasable |-> TRUE,
                  stock_status |-> "instock", stock_quantity |-> Null,
                  price |-> EmptyPrice]
PricedProducts == [kind : {"ok"}, purchasable : BOOLEAN,
                   stock_status : {"instock", "outofstock"},
                   stock_quantity : StockQuantities, price : Prices]
WooCommerceProduct == {r \in PricedProducts : r.price \in CorePrices}
FetchResults == {FetchFailure, FetchNotFound} \cup WooCommerceProduct
Pending == [kind |-> "pending", purchasable |-> TRUE,
            stock_status |-> "instock", stock_quantity |-> Null,
            price |-> EmptyPrice]
\* a line item without variation_id starts no variation fetch
NotFetched == [kind |-> "none", purchasable |-> TRUE,
               stock_status |-> "instock", stock_quantity |-> Null,
               price |-> EmptyPrice]

(***************************************************************************)
(* CHECKOUT: validation (phases 1-3)                                       *)
(***************************************************************************)
ValidationError(field, pid, reason, expected, actual) ==
  [field |-> field, product_id |-> pid, reason |-> reason,
   expected |-> expected, actual |-> actual]

\* Map.prototype.set: a new key is appended, an existing key keeps its place
MapSet(m, pid, product, quantity) ==
  LET e == [product_id |-> pid, product |-> product, quantity |-> quantity] IN
  IF \E i \in 1..Len(m) : m[i].product_id = pid
  THEN [i \in 1..Len(m) |-> IF m[i].product_id = pid THEN e ELSE m[i]]
  ELSE Append(m, e)

MapHas(m, pid) == \E i \in 1..Len(m) : m[i].product_id = pid
MapGet(m, pid) == m[CHOOSE i \in 1..Len(m) : m[i].product_id = pid]

\* Phase 1, lines 361-387: the loop over productResults
RECURSIVE CollectFetchResults(_, _, _, _)
CollectFetchResults(results, items, i, acc) ==
  IF i > Len(results) THEN acc
  ELSE
    LET r == results[i]
        item == items[i]
    IN CollectFetchResults(results, items, i + 1,
         IF r.kind = "error"
         THEN [acc EXCEPT !.errors = Append(@,
                 ValidationError("availability", item.product_id,
                                 "fetch_failed", Null, Null))]
         ELSE IF r.kind = "notfound"
         THEN [acc EXCEPT !.errors = Append(@,
                 ValidationError("availability", item.product_id,
                                 "not_found", Null, Null))]
         ELSE [acc EXCEPT !.products =
                 MapSet(@, item.product_id, r, item.quantity)])

\* Phase 2, lines 391-425: the body of the loop, for one Map entry
ProductErrors(e) ==
  (IF e.product.purchasable = FALSE
   THEN <<ValidationError("availability", e.product_id, "not_purchasable",
                          Null, Null)>>
   ELSE <<>>)
  \o (IF e.product.stock_status = "outofstock"
      THEN <<ValidationError("stock", e.product_id, "out_of_stock",
                             Null, Null)>>
      ELSE <<>>)
  \o (IF e.product.stock_quantity # Null /\ e.product.stock_quantity < e.quantity
      THEN <<ValidationError("stock", e.product_id, "insufficient",
                             e.quantity, e.product.stock_quantity)>>
      ELSE <<>>)

\* faulty variant: the loop stops at the first product that has an error
RECURSIVE ValidateProducts_FailFast(_, _)
ValidateProducts_FailFast(products, i) ==
  IF i > Len(products) THEN <<>>
  ELSE IF ProductErrors(products[i]) # <<>> THEN ProductErrors(products[i])
  ELSE ValidateProducts_FailFast(products, i + 1)

RECURSIVE ValidateProducts(_, _)
ValidateProducts(products, i) ==
  IF i > Len(products) THEN <<>>
  ELSE ProductErrors(products[i]) \o ValidateProducts(products, i + 1)

\* Phase 3, lines 432-482: what one variation promise pushes when it settles
VariationErrors(item, v) ==
  IF v.kind = "error"
  THEN <<ValidationError("variation", item.product_id,
                         "variation_fetch_failed", Null, Null)>>
  ELSE IF v.kind = "notfound"
  THEN <<ValidationError("variation", item.product_id,
                         "variation_missing", Null, Null)>>
  ELSE
    (IF v.purchasable = FALSE
     THEN <<ValidationError("availability", item.product_id,
                            "variation_not_purchasable", Null, Null)>>
     ELSE <<>>)
    \o (IF v.stock_status = "outofstock"
        THEN <<ValidationError("stock", item.product_id,
                               "variation_out_of_stock", Null, Null)>>
        ELSE <<>>)
    \o (IF v.stock_quantity # Null /\ v.stock_quantity < item.quantity
        THEN <<ValidationError("stock", item.product_id,
                               "variation_insufficient",
                               item.quantity, v.stock_quantity)>>
        ELSE <<>>)

HasVariation(item) == item.variation_id # 0

(***************************************************************************)
(* CHECKOUT: the validation checkpoint, lines 496-532                      *)
(***************************************************************************)
\* faulty variant: only stock errors abort
CheckpointFails_StockOnly(errors) ==
  \E i \in 1..Len(errors) : errors[i].field = "stock"

CheckpointFails(errors) == Len(errors) > 0

IsOutOfStockField(field) == field = "stock" \/ field = "variation"

RECURSIVE Dedupe(_)
\* [...new Set(array)]: first occurrences, in order
Dedupe(s) ==
  IF s = <<>> THEN <<>>
  ELSE LET front == Dedupe(SubSeq(s, 1, Len(s) - 1))
           last == s[Len(s)]
       IN IF \E i \in 1..Len(front) : front[i] = last THEN front
          ELSE Append(front, last)

RECURSIVE ProductIdsOf(_)
ProductIdsOf(errors) ==
  IF errors = <<>> THEN <<>>
  ELSE <<errors[1].product_id>> \o ProductIdsOf(Tail(errors))

outOfStockProductIds(errors) ==
  LET criticalErrors == SelectSeq(errors, LAMBDA err :
        err.field = "stock" \/ err.field = "variation"
        \/ err.field = "availability")
  IN Dedupe(ProductIdsOf(
       SelectSeq(criticalErrors, LAMBDA err : IsOutOfStockField(err.field))))

(***************************************************************************)
(* CHECKOUT: snapshot and payload, lines 57-98 and 534-605                 *)
(***************************************************************************)
NoRequestId == 0
NoSnapshot == [built |-> FALSE, request_id |-> NoRequestId, items |-> <<>>,
               subtotal |-> 0, total_tax |-> 0, total |-> 0]
NoPayload == [built |-> FALSE, status |-> "none", set_paid |-> FALSE,
              billing |-> "undefined", shipping |-> "undefined",
              line_items |-> <<>>, history |-> <<>>, snapshot |-> NoSnapshot,
              checkout_request_id |-> NoRequestId]

\* parseFloat(product.price) || 0, in thousandths
parsePrice(price) == IF price = EmptyPrice THEN 0 ELSE price

\* Number.prototype.toFixed(2) of x thousandths, as hundredths. The nearest
\* hundredth is taken; when x ends in 5 the binary double that stands for it
\* lies on the tie or just beside it, and tieAbove tells on which side
toFixed2(x, tieAbove) ==
  IF x % 10 = 5 THEN (IF tieAbove THEN x \div 10 + 1 ELSE x \div 10)
  ELSE (x + 5) \div 10

\* lines 65-85, items: one per line item whose product is in the Map, its
\* quantity read from the Map entry
RECURSIVE SnapshotItems(_, _, _)
SnapshotItems(products, lineItems, tieAbove) ==
  IF lineItems = <<>> THEN <<>>
  ELSE LET item == Head(lineItems)
           rest == SnapshotItems(products, Tail(lineItems), tieAbove)
       IN IF ~MapHas(products, item.product_id) THEN rest
          ELSE LET productData == MapGet(products, item.product_id)
                   unitPrice == parsePrice(productData.product.price)
                   totalPrice == unitPrice * productData.quantity
               IN <<[product_id |-> item.product_id,
                     variation_id |-> item.variation_id,
                     quantity |-> productData.quantity,
                     unit_price |-> productData.product.price,
                     total_price |-> toFixed2(totalPrice, tieAbove)]>>
                  \o rest

\* lines 63-85, subtotal: the running sum of the unrounded totalPrice
RECURSIVE SnapshotSubtotal(_, _)
SnapshotSubtotal(products, lineItems) ==
  IF lineItems = <<>> THEN 0
  ELSE LET item == Head(lineItems)
           rest == SnapshotSubtotal(products, Tail(lineItems))
       IN IF ~MapHas(products, item.product_id) THEN rest
          ELSE LET productData == MapGet(products, item.product_id)
               IN parsePrice(productData.product.price) * productData.quantity
                  + rest

createPriceSnapshot(products, lineItems, id, tieAbove) ==
  LET subtotal == SnapshotSubtotal(products, lineItems) IN
  [built |-> TRUE,
   request_id |-> id,
   items |-> SnapshotItems(products, lineItems, tieAbove),
   subtotal |-> toFixed2(subtotal, tieAbove),
   total_tax |-> 0,
   total |-> toFixed2(subtotal, tieAbove)]

\* lines 535-541: validatedLineItems
ValidatedLineItems(lineItems) ==
  [i \in 1..Len(lineItems) |->
     [product_id |-> lineItems[i].product_id,
      quantity |-> lineItems[i].quantity,
      variation_id |-> lineItems[i].variation_id]]

\* faulty variant: the first entry is attributed to the system
InitialHistory_System ==
  <<[fromStatus |-> "null", toStatus |-> "pending", reasonId |-> 0,
     actor |-> "system"]>>

\* lines 578-587: initialStatus and initialHistory
InitialHistory ==
  <<[fromStatus |-> "null", toStatus |-> "pending", reasonId |-> 0,
     actor |-> "customer"]>>

\* lines 589-605
BuildPayload(billing, lineItems, snapshot, id) ==
  [built |-> TRUE, status |-> "pending", set_paid |-> FALSE,
   billing |-> billing, shipping |-> billing,
   line_items |-> ValidatedLineItems(lineItems),
   history |-> InitialHistory, snapshot |-> snapshot,
   checkout_request_id |-> id]

(***************************************************************************)
(* CHECKOUT: retry executor, lines 213-292, and createOrder, lines 608-629 *)
(***************************************************************************)
TransientCodes == {"woocommerce_rest_server_unavailable",
                   "woocommerce_rest_authentication_error",
                   "database_error", "object_lock_wait_timeout"}
BackendCodes == {"undefined", "woocommerce_rest_invalid_product_id"}
                \cup TransientCodes

\* What one POST /orders comes to: fetch (or res.json) throws, or a response
\* with a status, the `code` of its JSON body and, when 2xx, the new order's id
Threw == [kind |-> "threw", status |-> 0, code |-> "undefined", id |-> 0]
OrderOutcomes ==
  {Threw}
  \cup [kind : {"response"}, status : {201}, code : {"undefined"},
        id : 1..MaxOrderId]
  \cup [kind : {"response"}, status : {400, 429, 500, 503},
        code : BackendCodes, id : {0}]
\* the answers Spec draws from: one of each class
CoreOrderOutcomes ==
  {o \in OrderOutcomes : o.code = "undefined" /\ o.status \in {0, 201, 400, 503}}

\* faulty variant: only 200 counts as success
ResOk_Only200(status) == status = 200

ResOk(status) == status >= 200 /\ status <= 299
Succeeded(o) == o.kind = "response" /\ ResOk(o.status)

NoError == [statusCode |-> 0, code |-> "undefined", call |-> 0]
\* The error createOrder throws on a failed call: lines 621-626 attach the
\* status only; a thrown fetch error carries neither status nor code.
\* `call` is the identity of the error object (which call created it).
createOrderError(o, n) ==
  [statusCode |-> IF o.kind = "response" THEN o.status ELSE 0,
   code |-> "undefined", call |-> n]

isTransientError(statusCode, errorData) ==
  IF statusCode >= 500 THEN TRUE
  ELSE IF statusCode = 429 THEN TRUE
  ELSE IF errorData.code # "undefined" THEN errorData.code \in TransientCodes
  ELSE FALSE

\* lines 260-262: error.statusCode || error.response?.status || 500
StatusCodeOf(error) == IF error.statusCode # 0 THEN error.statusCode ELSE 500

\* faulty variant: gives up one attempt early
IsLastAttempt_OffByOne(n) == n = maxRetries - 1

IsLastAttempt(n) == n = maxRetries

RECURSIVE Pow2(_)
Pow2(n) == IF n = 0 THEN 1 ELSE 2 * Pow2(n - 1)
Min(a, b) == IF a < b THEN a ELSE b
\* faulty variant: the delay does not grow
BackoffDelay_Constant(n) == Min(initialDelayMs, maxDelayMs)

\* lines 275-278
BackoffDelay(n) == Min(initialDelayMs * Pow2(n), maxDelayMs)
\* Math.random() * 50, sampled at both ends of [0, 50)
Jitters == {0, jitterMs - 1}

(***************************************************************************)
(* CHECKOUT: responses                                                     *)
(***************************************************************************)
NoResponse == [status |-> 0, code |-> "none", success |-> FALSE, orderId |-> 0,
               validation_errors |-> <<>>, out_of_stock_product_ids |-> <<>>,
               requestId |-> NoRequestId]
BadRequest(rid) == [NoResponse EXCEPT !.status = 400, !.requestId = rid]
InternalError(rid) ==
  [NoResponse EXCEPT !.status = 500, !.code = "internal_error",
                     !.requestId = rid]
Conflict(errors, rid) ==
  [NoResponse EXCEPT !.status = 409, !.validation_errors = errors,
                     !.out_of_stock_product_ids = outOfStockProductIds(errors),
                     !.requestId = rid]
Created(id, rid) == [NoResponse EXCEPT !.status = 201, !.success = TRUE,
                                       !.orderId = id, !.requestId = rid]

\* lib/logger startRequest: `req_${Date.now()}_${random}`, a fresh id; the
\* ids are numbered in the order they are made (issued: how many were made)
startRequest(issued) == issued + 1

\* lines 299-332, up to the first backend call: what the handler does with
\* the environment and the body
RequestCheck(e, b) ==
  IF e = "invalid" THEN "throw"                        \* assertEnvironment
  ELSE IF ~b.json THEN "throw"                         \* request.json()
  ELSE IF b.line_items_kind \in {"undefined", "null"}
       THEN "throw"                                    \* lineItems.length
  ELSE IF b.billing = "undefined" \/ b.line_items_kind # "array"
       THEN "bad_request"
  ELSE IF Len(b.line_items) = 0 THEN "bad_request"
  ELSE IF e = "nocreds" THEN "throw"                   \* getEnvVar(.., true)
  ELSE "continue"

(***************************************************************************)
(* CHECKOUT: the handler POST, lines 294-679, one action per continuation  *)
(***************************************************************************)
LifecycleIdle ==
  /\ fromStatus = "pending" /\ toStatus = "pending"
  /\ transitionResult = "uncalled"
  /\ orderId = 1 /\ actorArg = "undefined" /\ historyEntry = NoEntry

\* no request to the revalidate endpoint
RevalidateIdle ==
  /\ REVALIDATION_SECRET = "undefined"
  /\ revalidateRequest = <<>> /\ revalidatePc = "idle"
  /\ revalidations = <<>> /\ revalidateResponse = 0

\* the backend is not modelled: its answers are drawn freely
BackendIdle == backendStock = 0 /\ backendOrders = EmptyBag

\* the environment validation is not modelled: `env` stands for its outcome
EnvIdle ==
  /\ nodeEnv = "development" /\ processEnv = {} /\ serverProcess = "running"
  /\ _startupValidated = FALSE /\ _startupValid = FALSE
  /\ assertCalls = 0 /\ assertResult = "uncalled"

\* no browser is modelled
ClientIdle ==
  /\ cartItems = <<>> /\ lastCartOp = <<>> /\ isSubmitting = FALSE
  /\ clientLineItems = <<>> /\ clientResponse = NoResponse

\* no order's history is followed
HistoryIdle == statusHistory = <<>>

MoreIdle == BackendIdle /\ EnvIdle /\ ClientIdle /\ HistoryIdle

\* no second request is modelled, and no admin request
ConcurrentIdle ==
  /\ MoreIdle
  /\ requests = <<>> /\ logEntries = <<>>
  /\ adminActionLimits = <<>> /\ now = 0 /\ admitted = <<>>
  /\ rateLimitResult = <<>>
  /\ RevalidateIdle

\* no request in the single-request variables
RequestIdle ==
  /\ env = "ok" /\ body = UnparseableBody /\ pc = "idle"
  /\ productResults = <<>> /\ productsToValidate = <<>>
  /\ validationErrors = <<>> /\ variationResults = <<>>
  /\ priceSnapshot = NoSnapshot /\ payload = NoPayload /\ calls = <<>>
  /\ attempt = 0 /\ attemptLog = <<>> /\ sleepMs = 0 /\ thrown = NoError
  /\ response = NoResponse
  /\ requestId = NoRequestId

Init ==
  /\ env \in {"ok", "invalid", "nocreds"}
  /\ body \in Bodies
  /\ pc = "received"
  /\ productResults = <<>>
  /\ productsToValidate = <<>>
  /\ validationErrors = <<>>
  /\ variationResults = <<>>
  /\ priceSnapshot = NoSnapshot
  /\ payload = NoPayload
  /\ calls = <<>>
  /\ attempt = 0
  /\ attemptLog = <<>>
  /\ sleepMs = 0
  /\ thrown = NoError
  /\ response = NoResponse
  /\ requestId = NoRequestId
  /\ _requestId = NoRequestId
  /\ LifecycleIdle
  /\ ConcurrentIdle

\* lines 296-358: everything up to `await Promise.all(productFetchPromises)`;
\* line_items.map issues one fetchProduct per line item
HandleRequest ==
  /\ pc = "received"
  /\ requestId' = startRequest(0)
  /\ LET check == RequestCheck(env, body) IN
     IF check = "continue"
     THEN /\ productResults' = [i \in 1..Len(body.line_items) |-> Pending]
          /\ calls' = [i \in 1..Len(body.line_items) |-> "GET_product"]
          /\ pc' = "products"
          /\ _requestId' = requestId'
          /\ UNCHANGED response
     ELSE /\ response' = IF check = "bad_request" THEN BadRequest(requestId')
                         ELSE InternalError(requestId')
          /\ pc' = "done"
          /\ _requestId' = NoRequestId          \* finally
          /\ UNCHANGED <<productResults, calls>>
  /\ UNCHANGED <<env, body, productsToValidate, validationErrors,
                 variationResults, priceSnapshot, payload, attempt,
                 attemptLog, sleepMs, thrown>>
  /\ UNCHANGED notCheckoutVars

\* lines 349-356: one product fetch settles (in any order)
ProductFetchSettles(i, r) ==
  /\ pc = "products"
  /\ i \in 1..Len(productResults)
  /\ productResults[i] = Pending
  /\ productResults' = [productResults EXCEPT ![i] = r]
  /\ UNCHANGED <<env, body, pc, productsToValidate, validationErrors,
                 variationResults, priceSnapshot, payload, calls, attempt,
                 attemptLog, sleepMs, thrown, response>>
  /\ UNCHANGED <<requestId, _requestId>>
  /\ UNCHANGED notCheckoutVars

\* the calls Phase 3 issues: one fetchVariation per line item with a variation
RECURSIVE VariationCalls(_)
VariationCalls(lineItems) ==
  IF lineItems = <<>> THEN <<>>
  ELSE (IF HasVariation(Head(lineItems)) THEN <<"GET_variation">> ELSE <<>>)
       \o VariationCalls(Tail(lineItems))

\* lines 358-487: Promise.all resolves; phases 1 and 2 run, phase 3 starts
\* its fetches, up to `await Promise.all(variationPromises)`
ProductsResolved ==
  /\ pc = "products"
  /\ \A i \in 1..Len(productResults) : productResults[i] # Pending
  /\ LET acc == CollectFetchResults(productResults, body.line_items, 1,
                                    [errors |-> <<>>, products |-> <<>>])
     IN /\ productsToValidate' = acc.products
        /\ validationErrors' = acc.errors \o ValidateProducts(acc.products, 1)
  /\ variationResults' = [i \in 1..Len(body.line_items) |->
                            IF HasVariation(body.line_items[i]) THEN Pending
                            ELSE NotFetched]
  /\ calls' = calls \o VariationCalls(body.line_items)
  /\ pc' = "variations"
  /\ UNCHANGED <<env, body, productResults, priceSnapshot, payload, attempt,
                 attemptLog, sleepMs, thrown, response>>
  /\ UNCHANGED <<requestId, _requestId>>
  /\ UNCHANGED notCheckoutVars

\* indices of the line items whose variation fetch is in flight
PendingVariations ==
  {i \in 1..Len(variationResults) : variationResults[i] = Pending}

\* lines 432-482: one variation fetch settles and pushes its errors
VariationFetchSettles(i, v) ==
  /\ pc = "variations"
  /\ i \in PendingVariations
  /\ validationErrors' = validationErrors \o VariationErrors(body.line_items[i], v)
  /\ variationResults' = [variationResults EXCEPT ![i] = v]
  /\ UNCHANGED <<env, body, pc, productResults, productsToValidate,
                 priceSnapshot, payload, calls, attempt, attemptLog, sleepMs,
                 thrown, response>>
  /\ UNCHANGED <<requestId, _requestId>>
  /\ UNCHANGED notCheckoutVars

\* faulty variant: the order is posted before the snapshot is built
CommitSteps_Reversed == <<"POST_orders", "snapshot">>

\* the order of the two steps after a passed checkpoint: snapshot (line 550),
\* then the first createOrder call inside withRetry (line 631)
CommitSteps == <<"snapshot", "POST_orders">>

\* lines 487-631: the checkpoint; then snapshot, payload and the first
\* createOrder call
Checkpoint ==
  /\ pc = "variations"
  /\ PendingVariations = {}
  /\ IF CheckpointFails(validationErrors)
     THEN /\ response' = Conflict(validationErrors, requestId)
          /\ pc' = "done"
          /\ _requestId' = NoRequestId          \* finally
          /\ UNCHANGED <<priceSnapshot, payload, calls>>
     ELSE /\ \E tieAbove \in BOOLEAN :
               priceSnapshot' = createPriceSnapshot(productsToValidate,
                                  body.line_items, requestId, tieAbove)
          /\ payload' = BuildPayload(body.billing, body.line_items,
                                     priceSnapshot', requestId)
          /\ calls' = calls \o CommitSteps
          /\ pc' = "submitting"
          /\ UNCHANGED <<response, _requestId>>
  /\ UNCHANGED <<env, body, productResults, productsToValidate,
                 validationErrors, variationResults, attempt, attemptLog,
                 sleepMs, thrown>>
  /\ UNCHANGED requestId
  /\ UNCHANGED notCheckoutVars

\* lines 255-288 and 631-674: the createOrder call in flight settles with o
OrderAttemptSettles(o) ==
  /\ pc = "submitting"
  /\ attemptLog' = Append(attemptLog, o)
  /\ IF Succeeded(o)
     THEN /\ response' = Created(o.id, requestId)
          /\ pc' = "done"
          /\ _requestId' = NoRequestId          \* finally
          /\ UNCHANGED <<sleepMs, thrown>>
     ELSE LET error == createOrderError(o, Len(attemptLog) + 1)
              statusCode == StatusCodeOf(error)
          IN IF ~isTransientError(statusCode, error) \/ IsLastAttempt(attempt)
             THEN /\ thrown' = error
                  /\ response' = InternalError(requestId)
                  /\ pc' = "done"
                  /\ _requestId' = NoRequestId  \* finally
                  /\ UNCHANGED sleepMs
             ELSE /\ \E jitter \in Jitters :
                       sleepMs' = BackoffDelay(attempt) + jitter
                  /\ pc' = "sleeping"
                  /\ UNCHANGED <<thrown, response, _requestId>>
  /\ UNCHANGED <<env, body, productResults, productsToValidate,
                 validationErrors, variationResults, priceSnapshot, payload,
                 calls, attempt>>
  /\ UNCHANGED requestId
  /\ UNCHANGED notCheckoutVars

\* lines 287-288, 255-257: the sleep ends, the loop issues the next call
SleepElapses ==
  /\ pc = "sleeping"
  /\ attempt' = attempt + 1
  /\ calls' = Append(calls, "POST_orders")
  /\ sleepMs' = 0
  /\ pc' = "submitting"
  /\ UNCHANGED <<env, body, productResults, productsToValidate,
                 validationErrors, variationResults, priceSnapshot, payload,
                 attemptLog, thrown, response>>
  /\ UNCHANGED <<requestId, _requestId>>
  /\ UNCHANGED notCheckoutVars

Next ==
  \/ HandleRequest
  \/ \E i \in 1..MaxItems, r \in FetchResults : ProductFetchSettles(i, r)
  \/ ProductsResolved
  \/ \E i \in 1..MaxItems, v \in FetchResults : VariationFetchSettles(i, v)
  \/ Checkpoint
  \/ \E o \in CoreOrderOutcomes : OrderAttemptSettles(o)
  \/ SleepElapses

Spec == Init /\ [][Next]_vars

(***************************************************************************)
(* withRetry(createOrder) alone: the request has passed validation for a   *)
(* one-item cart and the first createOrder call is in flight               *)
(***************************************************************************)
RetryCart == <<[product_id |-> 1, quantity |-> 1, variation_id |-> 0]>>
RetryProduct == [kind |-> "ok", purchasable |-> TRUE,
                 stock_status |-> "instock", stock_quantity |-> Null,
                 price |-> 19990]

InitRetry ==
  /\ env = "ok"
  /\ body \in {b \in WellFormedBodies : b.line_items = RetryCart}
  /\ pc = "submitting"
  /\ productResults = <<RetryProduct>>
  /\ productsToValidate = MapSet(<<>>, 1, RetryProduct, 1)
  /\ validationErrors = <<>>
  /\ variationResults = <<NotFetched>>
  /\ requestId = startRequest(0)
  /\ _requestId = requestId
  /\ priceSnapshot = createPriceSnapshot(productsToValidate, RetryCart,
                                         requestId, TRUE)
  /\ payload = BuildPayload(body.billing, RetryCart, priceSnapshot, requestId)
  /\ calls = <<"GET_product">> \o CommitSteps
  /\ attempt = 0
  /\ attemptLog = <<>>
  /\ sleepMs = 0
  /\ thrown = NoError
  /\ response = NoResponse
  /\ LifecycleIdle
  /\ ConcurrentIdle

NextRetry ==
  \/ \E o \in OrderOutcomes : OrderAttemptSettles(o)
  \/ SleepElapses

SpecRetry == InitRetry /\ [][NextRetry]_vars

(***************************************************************************)
(* The lifecycle helpers, each applied once to every input                 *)
(***************************************************************************)
ActorArgs == {"undefined", "system", "customer", "admin"}

InitLifecycle ==
  /\ fromStatus \in OrderStatus
  /\ toStatus \in OrderStatus
  /\ transitionResult = "uncalled"
  /\ orderId \in 1..MaxOrderId
  /\ actorArg \in ActorArgs
  /\ historyEntry = NoEntry
  /\ ConcurrentIdle
  /\ env = "ok" /\ body = UnparseableBody /\ pc = "idle"
  /\ productResults = <<>> /\ productsToValidate = <<>>
  /\ validationErrors = <<>> /\ variationResults = <<>>
  /\ priceSnapshot = NoSnapshot /\ payload = NoPayload /\ calls = <<>>
  /\ attempt = 0 /\ attemptLog = <<>> /\ sleepMs = 0 /\ thrown = NoError
  /\ response = NoResponse
  /\ requestId = NoRequestId /\ _requestId = NoRequestId

CallIsValidStatusTransition ==
  /\ transitionResult = "uncalled"
  /\ transitionResult' = IF isValidStatusTransition(fromStatus, toStatus)
                         THEN "valid" ELSE "rejected"
  /\ UNCHANGED <<fromStatus, toStatus, orderId, actorArg, historyEntry>>
  /\ UNCHANGED notLifecycleVars

CallCreateInitialStatusHistory ==
  /\ historyEntry = NoEntry
  /\ historyEntry' = createInitialStatusHistory(orderId, actorArg)
  /\ UNCHANGED <<fromStatus, toStatus, transitionResult, orderId, actorArg>>
  /\ UNCHANGED notLifecycleVars

NextLifecycle ==
  \/ CallIsValidStatusTransition
  \/ CallCreateInitialStatusHistory

SpecLifecycle == InitLifecycle /\ [][NextLifecycle]_vars

(***************************************************************************)
(* The initial status history of an order: the payload the handler builds  *)
(* (one-item carts) and createInitialStatusHistory, over every order id    *)
(* and actor argument                                                      *)
(***************************************************************************)
InitOrderInit ==
  /\ env = "ok"
  /\ body \in {b \in WellFormedBodies : Len(b.line_items) = 1}
  /\ pc = "received"
  /\ productResults = <<>> /\ productsToValidate = <<>>
  /\ validationErrors = <<>> /\ variationResults = <<>>
  /\ priceSnapshot = NoSnapshot /\ payload = NoPayload /\ calls = <<>>
  /\ attempt = 0 /\ attemptLog = <<>> /\ sleepMs = 0 /\ thrown = NoError
  /\ response = NoResponse
  /\ requestId = NoRequestId /\ _requestId = NoRequestId
  /\ fromStatus = "pending" /\ toStatus = "pending"
  /\ transitionResult = "uncalled"
  /\ orderId \in 1..MaxOrderId
  /\ actorArg \in ActorArgs
  /\ historyEntry = NoEntry
  /\ ConcurrentIdle

NextOrderInit ==
  \/ Next
  \/ CallCreateInitialStatusHistory

SpecOrderInit == InitOrderInit /\ [][NextOrderInit]_vars

(***************************************************************************)
(* createPriceSnapshot over every price: the handler at its checkpoint,    *)
(* validation passed, for carts without variations                         *)
(***************************************************************************)
SnapshotCarts ==
  UNION {[1..n -> [product_id : ProductIds, quantity : 1..MaxSnapshotQty,
                   variation_id : {0}]] : n \in 1..MaxItems}
\* records that pass every check of phase 2
SnapshotProducts ==
  {r \in PricedProducts :
     r.purchasable /\ r.stock_status = "instock" /\ r.stock_quantity = Null}

InitSnapshot ==
  /\ env = "ok"
  /\ body \in [json : {TRUE}, billing : {"addrA"}, line_items_kind : {"array"},
               line_items : SnapshotCarts]
  /\ pc = "variations"
  /\ productResults \in [1..Len(body.line_items) -> SnapshotProducts]
  /\ productsToValidate =
       CollectFetchResults(productResults, body.line_items, 1,
                           [errors |-> <<>>, products |-> <<>>]).products
  /\ validationErrors = <<>>
  /\ variationResults = [i \in 1..Len(body.line_items) |-> NotFetched]
  /\ priceSnapshot = NoSnapshot /\ payload = NoPayload
  /\ calls = [i \in 1..Len(body.line_items) |-> "GET_product"]
  /\ attempt = 0 /\ attemptLog = <<>> /\ sleepMs = 0 /\ thrown = NoError
  /\ response = NoResponse
  /\ requestId = startRequest(0)
  /\ _requestId = requestId
  /\ LifecycleIdle
  /\ ConcurrentIdle

NextSnapshot == Checkpoint

SpecSnapshot == InitSnapshot /\ [][NextSnapshot]_vars

(***************************************************************************)
(* Several checkout requests in one process. Each runs the handler POST;   *)
(* the event loop runs one continuation at a time and switches between     *)
(* requests at their awaits (request.json(), the product fetches, the      *)
(* createOrder calls, the sleeps). The requests carry a one-item cart      *)
(* without variation, or a body that is rejected.                          *)
(***************************************************************************)
ConcurrentBodies ==
  {[json |-> TRUE, billing |-> "addrA", line_items_kind |-> "undefined",
    line_items |-> <<>>],
   [json |-> TRUE, billing |-> "addrA", line_items_kind |-> "array",
    line_items |-> <<>>],
   [json |-> TRUE, billing |-> "addrA", line_items_kind |-> "array",
    line_items |-> RetryCart]}
ConcurrentFetchResults == {FetchNotFound, RetryProduct}
\* one backend answer of each class
ConcurrentOrderOutcomes == {o \in CoreOrderOutcomes : o.id <= 1}

IdleRequest == [pc |-> "idle", requestId |-> NoRequestId,
                body |-> UnparseableBody, attempt |-> 0,
                priceSnapshot |-> NoSnapshot, payload |-> NoPayload,
                response |-> NoResponse]

InitConcurrent ==
  /\ RequestIdle
  /\ _requestId = NoRequestId
  /\ LifecycleIdle
  /\ requests \in [1..NumRequests ->
                    {[IdleRequest EXCEPT !.body = b] : b \in ConcurrentBodies}]
  /\ logEntries = <<>>
  /\ adminActionLimits = <<>> /\ now = 0 /\ admitted = <<>>
  /\ rateLimitResult = <<>>
  /\ RevalidateIdle
  /\ MoreIdle

\* how many request ids startRequest has made so far
IdsIssued ==
  Cardinality({r \in DOMAIN requests : requests[r].requestId # NoRequestId})

\* lib/logger createLogEntry: the entry takes the module-level _requestId
createLogEntry(r, message) ==
  [by |-> r, message |-> message, requestId |-> _requestId]

\* faulty variant: the response takes the id of the logger's context
ResponseRequestId_FromContext(own, context) == context

\* the requestId a response carries: the handler's own const (lines 311, 318,
\* 528, 649, 671), not the logger's context
ResponseRequestId(own, context) == own

\* lines 295-303: startRequest, setRequestId, assertEnvironment, up to
\* `await request.json()`
StartRequest(r) ==
  /\ requests[r].pc = "idle"
  /\ LET id == startRequest(IdsIssued) IN
     /\ requests' = [requests EXCEPT ![r].pc = "parsing", ![r].requestId = id]
     /\ _requestId' = id
  /\ UNCHANGED <<requestVars, lifecycleVars, rateLimitVars, revalidateVars,
                 moreVars, logEntries>>

\* lines 303-358: the body is parsed; logCheckoutRequest, the input checks,
\* and the product fetches are issued; a thrown error goes to the catch
\* block (logCheckoutError, 500); `finally` clears the logger's context
BodyParsed(r) ==
  /\ requests[r].pc = "parsing"
  /\ LET q == requests[r]
         check == RequestCheck(env, q.body)
         rid == ResponseRequestId(q.requestId, _requestId)
     IN IF check = "continue"
        THEN /\ logEntries' = Append(logEntries,
                                     createLogEntry(r, "request received"))
             /\ requests' = [requests EXCEPT ![r].pc = "products"]
             /\ UNCHANGED _requestId
        ELSE IF check = "bad_request"
        THEN /\ logEntries' = Append(logEntries,
                                     createLogEntry(r, "request received"))
             /\ requests' = [requests EXCEPT ![r].pc = "done",
                                             ![r].response = BadRequest(rid)]
             /\ _requestId' = NoRequestId
        ELSE /\ logEntries' = Append(logEntries,
                                     createLogEntry(r, "operation failed"))
             /\ requests' = [requests EXCEPT ![r].pc = "done",
                                             ![r].response = InternalError(rid)]
             /\ _requestId' = NoRequestId
  /\ UNCHANGED <<requestVars, lifecycleVars, rateLimitVars, revalidateVars,
                 moreVars>>

\* lines 358-631: Promise.all of the product fetches resolves; phases 1 and
\* 2, the checkpoint (409 with logCheckoutValidation), or the snapshot, the
\* payload and the first createOrder call
ProductsSettled(r, results) ==
  /\ requests[r].pc = "products"
  /\ LET q == requests[r]
         cart == q.body.line_items
         rid == ResponseRequestId(q.requestId, _requestId)
         acc == CollectFetchResults(results, cart, 1,
                                    [errors |-> <<>>, products |-> <<>>])
         errors == acc.errors \o ValidateProducts(acc.products, 1)
     IN /\ Len(results) = Len(cart)
        /\ IF CheckpointFails(errors)
           THEN /\ logEntries' = Append(logEntries,
                                        createLogEntry(r, "validation failed"))
                /\ requests' = [requests EXCEPT
                                  ![r].pc = "done",
                                  ![r].response = Conflict(errors, rid)]
                /\ _requestId' = NoRequestId
           ELSE /\ \E tieAbove \in BOOLEAN :
                     LET snapshot == createPriceSnapshot(acc.products, cart,
                                                         q.requestId, tieAbove)
                     IN requests' = [requests EXCEPT
                          ![r].pc = "submitting",
                          ![r].priceSnapshot = snapshot,
                          ![r].payload = BuildPayload(q.body.billing, cart,
                                                      snapshot, q.requestId)]
                /\ UNCHANGED <<logEntries, _requestId>>
  /\ UNCHANGED <<requestVars, lifecycleVars, rateLimitVars, revalidateVars,
                 moreVars>>

\* lines 255-288 and 631-678: what the handler does when the createOrder
\* call in flight settles with o
withRetryStep(r, o) ==
  /\ requests[r].pc = "submitting"
  /\ LET q == requests[r]
         rid == ResponseRequestId(q.requestId, _requestId)
         error == createOrderError(o, q.attempt + 1)
     IN IF Succeeded(o)
        THEN /\ logEntries' = Append(logEntries,
                                     createLogEntry(r, "order created"))
             /\ requests' = [requests EXCEPT
                               ![r].pc = "done",
                               ![r].response = Created(o.id, rid)]
             /\ _requestId' = NoRequestId
        ELSE IF ~isTransientError(StatusCodeOf(error), error)
                \/ IsLastAttempt(q.attempt)
        THEN /\ logEntries' = Append(logEntries,
                                     createLogEntry(r, "operation failed"))
             /\ requests' = [requests EXCEPT
                               ![r].pc = "done",
                               ![r].response = InternalError(rid)]
             /\ _requestId' = NoRequestId
        ELSE /\ requests' = [requests EXCEPT ![r].pc = "sleeping"]
             /\ UNCHANGED <<logEntries, _requestId>>
  /\ UNCHANGED <<requestVars, lifecycleVars, rateLimitVars, revalidateVars>>

OrderSettles(r, o) == withRetryStep(r, o) /\ UNCHANGED moreVars

\* lines 287-288, 255-257: the sleep ends, the next createOrder call starts
SleepDone(r) ==
  /\ requests[r].pc = "sleeping"
  /\ requests' = [requests EXCEPT ![r].pc = "submitting",
                                  ![r].attempt = @ + 1]
  /\ UNCHANGED <<requestVars, lifecycleVars, rateLimitVars, revalidateVars,
                 moreVars, logEntries, _requestId>>

NextConcurrent ==
  \/ \E r \in 1..NumRequests : StartRequest(r)
  \/ \E r \in 1..NumRequests : BodyParsed(r)
  \/ \E r \in 1..NumRequests, results \in [1..1 -> ConcurrentFetchResults] :
       ProductsSettled(r, results)
  \/ \E r \in 1..NumRequests, o \in ConcurrentOrderOutcomes :
       OrderSettles(r, o)
  \/ \E r \in 1..NumRequests : SleepDone(r)

SpecConcurrent == InitConcurrent /\ [][NextConcurrent]_vars

(***************************************************************************)
(* lib/auth: checkAdminRateLimit, lines 265-289, called at non-decreasing  *)
(* times for every admin id                                                *)
(***************************************************************************)
AdminIds == 1..NumAdmins
\* adminActionLimits.get(key) is undefined
NoRecord == [count |-> 0, resetTime |-> 0]

\* the value returned and the Map after the call made at time t
checkAdminRateLimit(limits, adminId, t) ==
  LET record == limits[adminId] IN
  IF record = NoRecord \/ t > record.resetTime
  THEN [result |-> TRUE,
        limits |-> [limits EXCEPT ![adminId] =
                      [count |-> 1, resetTime |-> t + RATE_LIMIT_WINDOW]]]
  ELSE IF record.count >= RATE_LIMIT_MAX_REQUESTS
  THEN [result |-> FALSE, limits |-> limits]
  ELSE [result |-> TRUE,
        limits |-> [limits EXCEPT ![adminId].count = @ + 1]]

\* the admitted calls that lie less than one window before time t
Recent(times, t) == SelectSeq(times, LAMBDA u : t - u < RATE_LIMIT_WINDOW)

InitRateLimit ==
  /\ RequestIdle /\ _requestId = NoRequestId
  /\ LifecycleIdle
  /\ requests = <<>> /\ logEntries = <<>>
  /\ adminActionLimits = [a \in AdminIds |-> NoRecord]
  /\ now = 0
  /\ admitted = [a \in AdminIds |-> <<>>]
  /\ rateLimitResult = <<>>
  /\ RevalidateIdle
  /\ MoreIdle

CallCheckAdminRateLimit(adminId) ==
  /\ LET call == checkAdminRateLimit(adminActionLimits, adminId, now) IN
     /\ adminActionLimits' = call.limits
     /\ rateLimitResult' = <<adminId, call.result>>
     /\ admitted' = IF call.result
                    THEN [admitted EXCEPT ![adminId] = Append(@, now)]
                    ELSE admitted
  /\ UNCHANGED now
  /\ UNCHANGED <<checkoutVars, lifecycleVars, concurrentVars, revalidateVars,
                 moreVars>>

\* time passes
Tick ==
  /\ now < MaxTicks * TickMs
  /\ now' = now + TickMs
  /\ admitted' = [a \in DOMAIN admitted |-> Recent(admitted[a], now')]
  /\ UNCHANGED <<adminActionLimits, rateLimitResult>>
  /\ UNCHANGED <<checkoutVars, lifecycleVars, concurrentVars, revalidateVars,
                 moreVars>>

NextRateLimit ==
  \/ \E a \in AdminIds : CallCheckAdminRateLimit(a)
  \/ Tick

SpecRateLimit == InitRateLimit /\ [][NextRateLimit]_vars

(***************************************************************************)
(* The revalidate endpoint, src/src/app/api/revalidate/route.ts lines      *)
(* 28-331, with requireAdmin of lib/auth; requests are handled one after   *)
(* another                                                                 *)
(***************************************************************************)
\* the webhook payloads: resource and action (data.id is present, no slug
\* change)
WebhookPayloads ==
  {[resource |-> "product", action |-> "update"],
   [resource |-> "product", action |-> "delete"],
   [resource |-> "order", action |-> "created"],
   [resource |-> "product_cat", action |-> "undefined"],
   [resource |-> "undefined", action |-> "undefined"]}

\* The headers and query of a request. authorization: the Authorization
\* header without 'Bearer '; secret: the query parameter; role: what
\* extractUserFromRequest finds in the x-user headers ("none": it returns
\* null); path, tag: the query parameter is given. The body is read later.
RevalidateRequests ==
  [method : {"POST"}, authorization : {"none", "wrong", "s3cret"},
   secret : {"none", "s3cret"}, role : {"none", "guest", "customer", "admin"},
   userId : {1}, path : BOOLEAN, tag : BOOLEAN]
  \cup
  [method : {"GET"}, authorization : {"none"}, secret : {"none"},
   role : {"none", "guest", "customer", "admin"}, userId : {1},
   path : BOOLEAN, tag : BOOLEAN]

\* lines 32-46
validateRequest(configured, req) ==
  IF configured # "undefined"
  THEN LET token == IF req.authorization # "none" THEN req.authorization
                    ELSE req.secret
       IN token = configured
  ELSE TRUE

\* faulty variant: any authenticated user passes
requireAdmin_AnyUser(req) ==
  IF req.role = "none" THEN 401 ELSE 0

\* lib/auth requireAuth and requireAdmin: the statusCode of the error thrown,
\* 0 when the user is returned
requireAdmin(req) ==
  IF req.role = "none" THEN 401
  ELSE IF req.role # "admin" THEN 403
  ELSE 0

\* lines 107-199: the revalidatePath / revalidateTag calls of POST, in order
PostRevalidations(req, webhook) ==
  (IF webhook.resource = "product" /\ webhook.action = "update"
   THEN <<"path:/product/id", "tag:product-id", "path:/", "tag:products",
          "tag:product-list">>
   ELSE IF webhook.resource = "product" /\ webhook.action = "delete"
   THEN <<"path:/", "tag:products", "tag:product-list">>
   ELSE <<>>)
  \o (IF webhook.resource = "order"
         /\ webhook.action \in {"created", "updated"}
      THEN <<"path:/", "tag:products", "tag:product-list">>
      ELSE <<>>)
  \o (IF webhook.resource = "product_cat"
      THEN <<"path:/", "tag:products", "tag:product-list">>
      ELSE <<>>)
  \o (IF req.path THEN <<"path:param">> ELSE <<>>)
  \o (IF req.tag THEN <<"tag:param">> ELSE <<>>)

\* lines 278-312: the call GET makes
GetRevalidations(req) ==
  IF req.path THEN <<"path:param">>
  ELSE IF req.tag THEN <<"tag:param">>
  ELSE <<>>

InitRevalidate ==
  /\ RequestIdle /\ _requestId = NoRequestId
  /\ LifecycleIdle
  /\ requests = <<>> /\ logEntries = <<>>
  /\ adminActionLimits = [a \in AdminIds |-> NoRecord]
  /\ now = 0
  /\ admitted = <<>>              \* no record of past calls is kept here
  /\ rateLimitResult = <<>>
  /\ REVALIDATION_SECRET \in {"undefined", "s3cret"}
  /\ revalidateRequest = <<>> /\ revalidatePc = "idle"
  /\ revalidations = <<>> /\ revalidateResponse = 0
  /\ MoreIdle

\* the steps both handlers share: requireAdmin, then checkAdminRateLimit;
\* `passed` is what the handler does once both have let the request through
AdminGate(req, passed) ==
  IF requireAdmin(req) # 0
  THEN /\ revalidateResponse' = requireAdmin(req)       \* catch block
       /\ revalidatePc' = "idle"
       /\ revalidations' = <<>>
       /\ UNCHANGED <<adminActionLimits, admitted, rateLimitResult>>
  ELSE LET call == checkAdminRateLimit(adminActionLimits, req.userId, now) IN
       /\ adminActionLimits' = call.limits
       /\ rateLimitResult' = <<req.userId, call.result>>
       /\ UNCHANGED admitted
       /\ IF ~call.result
          THEN /\ revalidateResponse' = 429
               /\ revalidatePc' = "idle"
               /\ revalidations' = <<>>
          ELSE passed

\* POST, lines 60-94: up to `await request.json()`
PostRevalidate(req) ==
  /\ revalidatePc = "idle"
  /\ req.method = "POST"
  /\ revalidateRequest' = req
  /\ IF ~validateRequest(REVALIDATION_SECRET, req)
     THEN /\ revalidateResponse' = 401
          /\ revalidatePc' = "idle"
          /\ revalidations' = <<>>
          /\ UNCHANGED <<adminActionLimits, admitted, rateLimitResult>>
     ELSE AdminGate(req, /\ revalidatePc' = "parsing"
                         /\ revalidateResponse' = 0
                         /\ revalidations' = <<>>)
  /\ UNCHANGED <<now, REVALIDATION_SECRET>>
  /\ UNCHANGED <<checkoutVars, lifecycleVars, concurrentVars, moreVars>>

\* POST, lines 94-253: the payload is parsed (or request.json() throws and
\* the catch block answers 500); the revalidation calls; the 200 response
PostPayloadParsed(json, webhook) ==
  /\ revalidatePc = "parsing"
  /\ IF ~json
     THEN /\ revalidateResponse' = 500
          /\ UNCHANGED revalidations
     ELSE /\ revalidations' = PostRevalidations(revalidateRequest, webhook)
          /\ revalidateResponse' = 200
  /\ revalidatePc' = "idle"
  /\ UNCHANGED <<REVALIDATION_SECRET, revalidateRequest>>
  /\ UNCHANGED <<checkoutVars, lifecycleVars, concurrentVars, rateLimitVars,
                 moreVars>>

\* GET, lines 256-331
GetRevalidate(req) ==
  /\ revalidatePc = "idle"
  /\ req.method = "GET"
  /\ revalidateRequest' = req
  /\ AdminGate(req, /\ revalidations' = GetRevalidations(req)
                    /\ revalidateResponse' = 200
                    /\ revalidatePc' = "idle")
  /\ UNCHANGED <<now, REVALIDATION_SECRET>>
  /\ UNCHANGED <<checkoutVars, lifecycleVars, concurrentVars, moreVars>>

NextRevalidate ==
  \/ \E req \in RevalidateRequests : PostRevalidate(req)
  \/ \E json \in BOOLEAN, webhook \in WebhookPayloads :
       PostPayloadParsed(json, webhook)
  \/ \E req \in RevalidateRequests : GetRevalidate(req)
  \/ Tick

SpecRevalidate == InitRevalidate /\ [][NextRevalidate]_vars

(***************************************************************************)
(* Several checkout requests against a backend that keeps the stock of     *)
(* product 1 as the handler assumes it does (src/src/app/api/checkout/     *)
(* route.ts lines 175-211): an order is created as a whole or not at all,  *)
(* creating it takes its quantity off the stock, an order that cannot be   *)
(* fulfilled is rejected. Every request orders one unit of product 1.      *)
(***************************************************************************)
\* faulty variant: the units of the requests that passed validation and have
\* not finished are held back
StockSeen_Reserving(stock, held) ==
  IF stock = Null THEN Null
  ELSE IF stock > held THEN stock - held ELSE 0

\* the stock a product fetch reports: the backend's, whatever is in flight
StockSeen(stock, held) == stock

\* GET /products/1 as the backend answers it with stock_quantity `stock`
BackendProduct(stock) ==
  [kind |-> "ok", purchasable |-> TRUE,
   stock_status |-> IF stock = Null \/ stock > 0 THEN "instock"
                    ELSE "outofstock",
   stock_quantity |-> stock, price |-> 19990]

\* the requests other than r between their checkpoint and their response
Held(r) ==
  Cardinality({q \in DOMAIN requests \ {r} :
                 requests[q].pc \in {"submitting", "sleeping"}})

\* POST /orders, lines 608-629: whether the backend creates the order, and
\* what the call comes to for the handler. A created order is answered 201,
\* or the answer is lost (fetch or res.json() throws); an order that is not
\* created is a rejection (400, not enough stock) or a failure (503, throw).
BackendAnswers(stock, quantity, id) ==
  IF stock = Null \/ stock >= quantity
  THEN {[created |-> TRUE,
         o |-> [kind |-> "response", status |-> 201, code |-> "undefined",
                id |-> id]],
        [created |-> TRUE, o |-> Threw],
        [created |-> FALSE, o |-> Threw],
        [created |-> FALSE,
         o |-> [kind |-> "response", status |-> 503, code |-> "undefined",
                id |-> 0]]}
  ELSE {[created |-> FALSE,
         o |-> [kind |-> "response", status |-> 400, code |-> "undefined",
                id |-> 0]],
        [created |-> FALSE, o |-> Threw]}

InitBackend ==
  /\ RequestIdle
  /\ _requestId = NoRequestId
  /\ LifecycleIdle
  /\ requests = [r \in 1..NumRequests |->
                   [IdleRequest EXCEPT !.body =
                      [json |-> TRUE, billing |-> "addrA",
                       line_items_kind |-> "array", line_items |-> RetryCart]]]
  /\ logEntries = <<>>
  /\ adminActionLimits = <<>> /\ now = 0 /\ admitted = <<>>
  /\ rateLimitResult = <<>>
  /\ RevalidateIdle
  /\ backendStock \in {Null} \cup 0..MaxStock
  /\ backendOrders = EmptyBag
  /\ EnvIdle /\ ClientIdle /\ HistoryIdle

\* lines 349-425 against the backend: the product fetch reads the stock
ProductRead(r) ==
  ProductsSettled(r, <<BackendProduct(StockSeen(backendStock, Held(r)))>>)

\* lines 608-631 against the backend: the createOrder call in flight is
\* processed and settles
BackendOrderSettles(r, answer) ==
  /\ requests[r].pc = "submitting"
  /\ answer \in BackendAnswers(backendStock,
                               requests[r].payload.line_items[1].quantity,
                               BagCardinality(backendOrders) + 1)
  /\ withRetryStep(r, answer.o)
  /\ IF answer.created
     THEN /\ backendOrders' = backendOrders (+) SetToBag({requests[r].payload})
          /\ backendStock' =
               IF backendStock = Null THEN Null
               ELSE backendStock - requests[r].payload.line_items[1].quantity
     ELSE UNCHANGED backendVars
  /\ UNCHANGED <<envVars, clientVars, statusHistory>>

NextBackend ==
  \/ \E r \in 1..NumRequests : StartRequest(r)
  \/ \E r \in 1..NumRequests : BodyParsed(r)
  \/ \E r \in 1..NumRequests : ProductRead(r)
  \/ \E r \in 1..NumRequests :
       \E answer \in BackendAnswers(backendStock, RetryCart[1].quantity,
                                     BagCardinality(backendOrders) + 1) :
         BackendOrderSettles(r, answer)
  \/ \E r \in 1..NumRequests : SleepDone(r)

SpecBackend == InitBackend /\ [][NextBackend]_vars

(***************************************************************************)
(* The environment validation, src/src/lib/auth.ts lines 515-667: the      *)
(* module is loaded, then assertEnvironment is called while variables of   *)
(* process.env are set and unset                                           *)
(***************************************************************************)
Envs == {"development", "staging", "production"}
EnvKeys == {"NEXT_PUBLIC_WORDPRESS_URL", "WC_CONSUMER_KEY",
            "WC_CONSUMER_SECRET", "NEXT_PUBLIC_SITE_URL",
            "REVALIDATION_SECRET"}

\* envConfigs[e].required, lines 528-568
RequiredKeys(e) ==
  IF e = "development" THEN {"NEXT_PUBLIC_WORDPRESS_URL"}
  ELSE IF e = "staging"
  THEN {"NEXT_PUBLIC_WORDPRESS_URL", "WC_CONSUMER_KEY", "WC_CONSUMER_SECRET",
        "NEXT_PUBLIC_SITE_URL"}
  ELSE EnvKeys

\* validateEnvironment().valid, lines 586-608
validateEnvironment(e, set) == RequiredKeys(e) \subseteq set

\* runStartupValidation, lines 619-651: the three module variables and the
\* process after the call
runStartupValidation(validated, valid, e, set) ==
  IF validated
  THEN [validated |-> validated, valid |-> valid, exits |-> FALSE]
  ELSE [validated |-> TRUE, valid |-> validateEnvironment(e, set),
        exits |-> ~validateEnvironment(e, set) /\ e = "production"]

InitEnv ==
  /\ RequestIdle /\ _requestId = NoRequestId
  /\ LifecycleIdle
  /\ requests = <<>> /\ logEntries = <<>>
  /\ adminActionLimits = <<>> /\ now = 0 /\ admitted = <<>>
  /\ rateLimitResult = <<>>
  /\ RevalidateIdle
  /\ BackendIdle /\ ClientIdle /\ HistoryIdle
  /\ nodeEnv \in Envs
  /\ processEnv \in SUBSET EnvKeys
  /\ serverProcess = "loading"
  /\ _startupValidated = FALSE /\ _startupValid = FALSE
  /\ assertCalls = 0 /\ assertResult = "uncalled"

\* line 654: runStartupValidation() at module load
ModuleLoad ==
  /\ serverProcess = "loading"
  /\ LET run == runStartupValidation(_startupValidated, _startupValid,
                                     nodeEnv, processEnv)
     IN /\ _startupValidated' = run.validated
        /\ _startupValid' = run.valid
        /\ serverProcess' = IF run.exits THEN "exited" ELSE "running"
  /\ UNCHANGED <<nodeEnv, processEnv, assertCalls, assertResult>>
  /\ UNCHANGED <<checkoutVars, lifecycleVars, concurrentVars, rateLimitVars,
                 revalidateVars, backendVars, clientVars, statusHistory>>

\* a variable of process.env is set after the module was loaded
SetEnvVar(key) ==
  /\ serverProcess = "running"
  /\ key \notin processEnv
  /\ processEnv' = processEnv \cup {key}
  /\ UNCHANGED <<nodeEnv, serverProcess, _startupValidated, _startupValid,
                 assertCalls, assertResult>>
  /\ UNCHANGED <<checkoutVars, lifecycleVars, concurrentVars, rateLimitVars,
                 revalidateVars, backendVars, clientVars, statusHistory>>

\* a variable of process.env is deleted after the module was loaded
UnsetEnvVar(key) ==
  /\ serverProcess = "running"
  /\ key \in processEnv
  /\ processEnv' = processEnv \ {key}
  /\ UNCHANGED <<nodeEnv, serverProcess, _startupValidated, _startupValid,
                 assertCalls, assertResult>>
  /\ UNCHANGED <<checkoutVars, lifecycleVars, concurrentVars, rateLimitVars,
                 revalidateVars, backendVars, clientVars, statusHistory>>

\* assertEnvironment, lines 657-667
assertEnvironment ==
  /\ serverProcess = "running"
  /\ assertCalls < MaxAssertCalls
  /\ LET run == runStartupValidation(_startupValidated, _startupValid,
                                     nodeEnv, processEnv)
     IN /\ _startupValidated' = run.validated
        /\ _startupValid' = run.valid
        /\ serverProcess' = IF run.exits THEN "exited" ELSE "running"
        /\ assertResult' = IF ~run.valid THEN "threw" ELSE "returned"
  /\ assertCalls' = assertCalls + 1
  /\ UNCHANGED <<nodeEnv, processEnv>>
  /\ UNCHANGED <<checkoutVars, lifecycleVars, concurrentVars, rateLimitVars,
                 revalidateVars, backendVars, clientVars, statusHistory>>

NextEnv ==
  \/ ModuleLoad
  \/ \E key \in EnvKeys : SetEnvVar(key)
  \/ \E key \in EnvKeys : UnsetEnvVar(key)
  \/ assertEnvironment

SpecEnv == InitEnv /\ [][NextEnv]_vars

(***************************************************************************)
(* The browser: the cart store (src/src/context/CartContext.tsx) and the   *)
(* checkout form (src/src/app/checkout/CheckoutClient.tsx) with the error  *)
(* normalisation of src/src/lib/errors.ts. The cart starts empty; the      *)
(* cart functions are called in any order, also while a submission is      *)
(* waiting for its answer; the answer is one the checkout endpoint gives   *)
(* for the submitted line items, or the fetch fails.                       *)
(***************************************************************************)
\* faulty variant: the product is always appended
addToCart_Append(prev, id) == Append(prev, [id |-> id, quantity |-> 1])

\* the updaters passed to setCartItems, lines 51-61, 66, 75-79, 86, 91
addToCart(prev, id) ==
  IF \E i \in 1..Len(prev) : prev[i].id = id
  THEN [i \in 1..Len(prev) |->
          IF prev[i].id = id THEN [prev[i] EXCEPT !.quantity = @ + 1]
          ELSE prev[i]]
  ELSE Append(prev, [id |-> id, quantity |-> 1])

removeFromCart(prev, id) == SelectSeq(prev, LAMBDA item : item.id # id)

updateQuantity(prev, id, quantity) ==
  IF quantity < 1 THEN removeFromCart(prev, id)
  ELSE [i \in 1..Len(prev) |->
          IF prev[i].id = id THEN [prev[i] EXCEPT !.quantity = quantity]
          ELSE prev[i]]

removeOutOfStockItems(prev, productIds) ==
  SelectSeq(prev, LAMBDA item :
                    ~\E k \in 1..Len(productIds) : productIds[k] = item.id)

clearCart(prev) == <<>>

\* line 94: cartItems.reduce((total, item) => total + item.quantity, 0)
RECURSIVE cartCount(_)
cartCount(items) ==
  IF items = <<>> THEN 0
  ELSE cartCount(SubSeq(items, 1, Len(items) - 1)) + items[Len(items)].quantity

CartOp(op, id, quantity, ids) ==
  [op |-> op, id |-> id, quantity |-> quantity, ids |-> ids]

\* CheckoutClient lines 56-59: the line items sent (no variation_id)
LineItemsOf(items) ==
  [i \in 1..Len(items) |->
     [product_id |-> items[i].id, quantity |-> items[i].quantity,
      variation_id |-> 0]]

\* fetch('/api/checkout') or res.json() throws
FetchThrew == [NoResponse EXCEPT !.code = "fetch_threw"]

\* one product fetch of each class: not found, in stock, out of stock
ClientFetchResults ==
  {FetchNotFound, RetryProduct,
   [RetryProduct EXCEPT !.stock_status = "outofstock"]}

\* the 409 answers of the endpoint for these line items: phases 1 and 2 over
\* every outcome of the product fetches
ConflictsFor(lineItems) ==
  {Conflict(errors, startRequest(0)) :
     errors \in
       {LET acc == CollectFetchResults(results, lineItems, 1,
                                       [errors |-> <<>>, products |-> <<>>])
        IN acc.errors \o ValidateProducts(acc.products, 1) :
          results \in [1..Len(lineItems) -> ClientFetchResults]} \ {<<>>}}

\* what handleSubmit can receive for these line items
ClientResponses(lineItems) ==
  {FetchThrew, BadRequest(startRequest(0)), InternalError(startRequest(0))}
  \cup {Created(MaxOrderId, startRequest(0))}
  \cup ConflictsFor(lineItems)

\* faulty variant: the list the endpoint sent is used
ClientOutOfStockIds_AsSent(data) == data.out_of_stock_product_ids

\* lib/errors.ts lines 93-109: out_of_stock_product_ids of the normalized
\* error, computed from validation_errors
ClientOutOfStockIds(data) ==
  ProductIdsOf(SelectSeq(data.validation_errors,
                         LAMBDA err : err.field \in {"stock", "variation",
                                                     "availability"}))

\* lib/errors.ts lines 167-205: details.out_of_stock_product_ids of
\* parseApiError(res, data); <<>> when the error has no details
parseApiError(res) ==
  IF res.status = 400 THEN <<>>
  ELSE IF res.status \in {401, 403, 404} THEN <<>>
  ELSE IF res.status = 409 THEN ClientOutOfStockIds(res)
  ELSE IF res.status >= 500 THEN <<>>
  ELSE ClientOutOfStockIds(res)

InitCart ==
  /\ RequestIdle /\ _requestId = NoRequestId
  /\ LifecycleIdle
  /\ requests = <<>> /\ logEntries = <<>>
  /\ adminActionLimits = <<>> /\ now = 0 /\ admitted = <<>>
  /\ rateLimitResult = <<>>
  /\ RevalidateIdle
  /\ BackendIdle /\ EnvIdle /\ HistoryIdle
  /\ cartItems = <<>>
  /\ lastCartOp = CartOp("none", 0, 0, <<>>)
  /\ isSubmitting = FALSE
  /\ clientLineItems = <<>>
  /\ clientResponse = NoResponse

ServerUnchanged ==
  UNCHANGED <<checkoutVars, lifecycleVars, concurrentVars, rateLimitVars,
              revalidateVars, backendVars, envVars, statusHistory>>

AddToCart(id) ==
  /\ \A i \in 1..Len(cartItems) :
       cartItems[i].id = id => cartItems[i].quantity < MaxQty
  /\ cartItems' = addToCart(cartItems, id)
  /\ lastCartOp' = CartOp("addToCart", id, 1, <<>>)
  /\ UNCHANGED <<isSubmitting, clientLineItems, clientResponse>>
  /\ ServerUnchanged

RemoveFromCart(id) ==
  /\ cartItems' = removeFromCart(cartItems, id)
  /\ lastCartOp' = CartOp("removeFromCart", id, 0, <<>>)
  /\ UNCHANGED <<isSubmitting, clientLineItems, clientResponse>>
  /\ ServerUnchanged

UpdateQuantity(id, quantity) ==
  /\ cartItems' = updateQuantity(cartItems, id, quantity)
  /\ lastCartOp' = CartOp("updateQuantity", id, quantity, <<>>)
  /\ UNCHANGED <<isSubmitting, clientLineItems, clientResponse>>
  /\ ServerUnchanged

RemoveOutOfStockItems(productIds) ==
  /\ cartItems' = removeOutOfStockItems(cartItems, productIds)
  /\ lastCartOp' = CartOp("removeOutOfStockItems", 0, 0, productIds)
  /\ UNCHANGED <<isSubmitting, clientLineItems, clientResponse>>
  /\ ServerUnchanged

ClearCart ==
  /\ cartItems' = clearCart(cartItems)
  /\ lastCartOp' = CartOp("clearCart", 0, 0, <<>>)
  /\ UNCHANGED <<isSubmitting, clientLineItems, clientResponse>>
  /\ ServerUnchanged

\* handleSubmit, lines 40-71: up to `await fetch('/api/checkout', ...)`
HandleSubmit ==
  /\ ~isSubmitting
  /\ IF cartItems = <<>>
     THEN /\ clientResponse' = [NoResponse EXCEPT !.code = "cart_empty"]
          /\ UNCHANGED <<isSubmitting, clientLineItems>>
     ELSE /\ isSubmitting' = TRUE
          /\ clientLineItems' = LineItemsOf(cartItems)
          /\ clientResponse' = NoResponse
  /\ UNCHANGED <<cartItems, lastCartOp>>
  /\ ServerUnchanged

\* handleSubmit, lines 73-110: the fetch settles
ResponseArrives(res) ==
  /\ isSubmitting
  /\ clientResponse' = res
  /\ isSubmitting' = FALSE
  /\ IF res = FetchThrew
     THEN UNCHANGED <<cartItems, lastCartOp>>                  \* catch
     ELSE IF ~ResOk(res.status)
     THEN IF Len(parseApiError(res)) > 0
          THEN /\ cartItems' = removeOutOfStockItems(cartItems,
                                                     parseApiError(res))
               /\ lastCartOp' = CartOp("removeOutOfStockItems", 0, 0,
                                       parseApiError(res))
          ELSE UNCHANGED <<cartItems, lastCartOp>>
     ELSE /\ cartItems' = clearCart(cartItems)
          /\ lastCartOp' = CartOp("clearCart", 0, 0, <<>>)
  /\ clientLineItems' = <<>>                    \* handleSubmit has returned
  /\ ServerUnchanged

\* the arguments removeOutOfStockItems is called with
IdLists == {<<>>, <<1, NumProducts>>, <<1, 1>>}
           \cup {<<a>> : a \in ProductIds}

NextCart ==
  \/ \E id \in ProductIds : AddToCart(id)
  \/ \E id \in ProductIds : RemoveFromCart(id)
  \/ \E id \in ProductIds, quantity \in 0..MaxQty : UpdateQuantity(id, quantity)
  \/ \E productIds \in IdLists : RemoveOutOfStockItems(productIds)
  \/ ClearCart
  \/ HandleSubmit
  \/ \E res \in ClientResponses(clientLineItems) : ResponseArrives(res)

SpecCart == InitCart /\ [][NextCart]_vars

(***************************************************************************)
(* The status histories of the orders: each starts with the entry of       *)
(* createInitialStatusHistory and grows by one createStatusTransitionEntry *)
(* for every transition isValidStatusTransition accepts                    *)
(* (src/src/app/api/revalidate/route.ts lines 472-579)                     *)
(***************************************************************************)
\* the entry createStatusTransitionEntry returns (actor left out: 'system')
createStatusTransitionEntry(from, to) ==
  [fromStatus |-> from, toStatus |-> to, reasonId |-> 0, actor |-> "system"]

\* the status an order has: toStatus of its newest entry
CurrentStatus(history) == history[Len(history)].toStatus

InitHistory ==
  /\ RequestIdle /\ _requestId = NoRequestId
  /\ LifecycleIdle
  /\ requests = <<>> /\ logEntries = <<>>
  /\ adminActionLimits = <<>> /\ now = 0 /\ admitted = <<>>
  /\ rateLimitResult = <<>>
  /\ RevalidateIdle
  /\ BackendIdle /\ EnvIdle /\ ClientIdle
  /\ statusHistory = [id \in 1..MaxOrderId |->
                        <<createInitialStatusHistory(id, "undefined")>>]

\* order id moves to status `to`
StatusTransition(id, to) ==
  /\ Len(statusHistory[id]) <= Cardinality(OrderStatus)
  /\ isValidStatusTransition(CurrentStatus(statusHistory[id]), to)
  /\ statusHistory' =
       [statusHistory EXCEPT ![id] =
          Append(@, createStatusTransitionEntry(CurrentStatus(@), to))]
  /\ UNCHANGED <<checkoutVars, lifecycleVars, concurrentVars, rateLimitVars,
                 revalidateVars, backendVars, envVars, clientVars>>

NextHistory ==
  \E id \in 1..MaxOrderId, to \in OrderStatus : StatusTransition(id, to)

SpecHistory == InitHistory /\ [][NextHistory]_vars

(***************************************************************************)
(* Vocabulary of the properties                                            *)
(***************************************************************************)
RECURSIVE Count(_, _)
Count(s, x) == IF s = <<>> THEN 0
               ELSE (IF Head(s) = x THEN 1 ELSE 0) + Count(Tail(s), x)
Issued(call) == Count(calls, call)
Range(s) == {s[i] : i \in 1..Len(s)}
Done == pc = "done"
CriticalFields == {"stock", "variation", "availability"}

(***************************************************************************)
(* C1  All-or-nothing: once a validation error is recorded for any line    *)
(* item, no POST /orders is ever issued, and the request ends with 409.    *)
(***************************************************************************)
C1_AllOrNothing ==
  validationErrors # <<>> =>
    /\ Issued("POST_orders") = 0
    /\ attemptLog = <<>>
    /\ ~payload.built
    /\ (Done => response.status = 409 /\ ~response.success)

\* a two-item cart in which one item is valid and the other is not, answered
C1_Witness ==
  /\ Done /\ response.status = 409
  /\ Len(body.line_items) = 2
  /\ Len(validationErrors) = 1
  /\ Issued("GET_product") = 2

(***************************************************************************)
(* C2  Malformed input (billing missing; line_items missing, null, not an  *)
(* array, or empty) is answered 400 and no backend call is issued.         *)
(***************************************************************************)
MalformedInput ==
  /\ body.json
  /\ \/ body.billing = "undefined"
     \/ body.line_items_kind # "array"
     \/ body.line_items = <<>>

C2_MalformedIs400 ==
  (Done /\ env = "ok" /\ MalformedInput) =>
    (response.status = 400 /\ calls = <<>>)

(***************************************************************************)
(* C3  In a 409 response out_of_stock_product_ids has no duplicates and    *)
(* holds a product id iff some validation error with field stock,          *)
(* variation or availability was recorded for it.                          *)
(***************************************************************************)
C3_OutOfStockIdsAreTheCriticalIds ==
  response.status = 409 =>
    LET ids == response.out_of_stock_product_ids IN
    /\ \A i, j \in 1..Len(ids) : ids[i] = ids[j] => i = j
    /\ \A p \in ProductIds :
         (p \in Range(ids)) <=>
         (\E e \in Range(response.validation_errors) :
            e.product_id = p /\ e.field \in CriticalFields)

(***************************************************************************)
(* C4  Validation never short-circuits: when the k line items have         *)
(* pairwise distinct product ids and each fails a check, the 409 response  *)
(* lists an error for each of the k product ids.                           *)
(***************************************************************************)
FailsChecks(rec, quantity) ==
  \/ rec.purchasable = FALSE
  \/ rec.stock_status = "outofstock"
  \/ (rec.stock_quantity # Null /\ rec.stock_quantity < quantity)

ItemFails(i) ==
  LET item == body.line_items[i]
      p == productResults[i]
      v == variationResults[i]
  IN \/ p.kind \in {"error", "notfound"}
     \/ (p.kind = "ok" /\ FailsChecks(p, item.quantity))
     \/ v.kind \in {"error", "notfound"}
     \/ (v.kind = "ok" /\ FailsChecks(v, item.quantity))

DistinctProductIds ==
  \A i, j \in 1..Len(body.line_items) :
    body.line_items[i].product_id = body.line_items[j].product_id => i = j

ValidationFinished ==
  /\ pc \in {"submitting", "sleeping", "done"}
  /\ body.line_items # <<>>
  /\ Len(variationResults) = Len(body.line_items)

C4_NoShortCircuit ==
  (ValidationFinished /\ Done /\ DistinctProductIds
     /\ \A i \in 1..Len(body.line_items) : ItemFails(i)) =>
    /\ response.status = 409
    /\ \A i \in 1..Len(body.line_items) :
         \E e \in Range(response.validation_errors) :
           e.product_id = body.line_items[i].product_id

\* two failing items, the first failing a phase-2 check and the second lost
\* in phase 1; both are reported
C4_Witness ==
  /\ Done /\ response.status = 409
  /\ Len(body.line_items) = 2 /\ DistinctProductIds
  /\ productResults[1].kind = "ok" /\ productResults[1].stock_status = "outofstock"
  /\ productResults[2].kind = "notfound"
  /\ \A i \in 1..2 : \E e \in Range(response.validation_errors) :
        e.product_id = body.line_items[i].product_id

(***************************************************************************)
(* C5  Retry count: when every createOrder call fails with 503, exactly    *)
(* maxRetries = 2 more calls follow the first (3 in all) and the error of  *)
(* the last call is re-thrown; when the first call fails with 400 no       *)
(* further call is made and that error is re-thrown. Every run makes       *)
(* between 1 and 3 calls.                                                  *)
(***************************************************************************)
FailedWith(o, status) == o.kind = "response" /\ o.status = status

C5_RetryCount ==
  /\ Len(attemptLog) <= 3
  /\ Issued("POST_orders") \in 1..3
  /\ (Done => Len(attemptLog) \in 1..3 /\ Issued("POST_orders") = Len(attemptLog))
  /\ (Done /\ \A k \in 1..Len(attemptLog) : FailedWith(attemptLog[k], 503)) =>
       /\ Len(attemptLog) = maxRetries + 1
       /\ Len(attemptLog) = 3
       /\ thrown.call = 3 /\ thrown.statusCode = 503
  /\ (attemptLog # <<>> /\ FailedWith(attemptLog[1], 400)) =>
       /\ Len(attemptLog) = 1 /\ Issued("POST_orders") = 1
       /\ Done
       /\ thrown.call = 1 /\ thrown.statusCode = 400

\* three calls, each answered 503, and the last error thrown
C5_Witness ==
  /\ Done /\ Len(attemptLog) = 3
  /\ \A k \in 1..3 : FailedWith(attemptLog[k], 503)
  /\ thrown.call = 3

(***************************************************************************)
(* C6  Transient classification: a failed createOrder call (other than the *)
(* last allowed one) is retried iff the response status is >= 500, or is   *)
(* 429, or the error code of the response body is a known transient code.  *)
(***************************************************************************)
ClaimedTransient(o) ==
  o.status >= 500 \/ o.status = 429 \/ o.code \in TransientCodes

Retried(k) ==
  k < Len(attemptLog) \/ (k = Len(attemptLog) /\ pc = "sleeping")

C6_RetriedIffTransient ==
  \A k \in 1..Len(attemptLog) :
    LET o == attemptLog[k] IN
    (o.kind = "response" /\ ~(o.status \in 200..299) /\ k <= maxRetries) =>
      (Retried(k) <=> ClaimedTransient(o))

(***************************************************************************)
(* C7  Outcome mapping: after validation has passed the response is 201    *)
(* with success and the backend's order id iff some createOrder call got a *)
(* 2xx response, and 500 internal_error otherwise; an exception anywhere   *)
(* gives 500 internal_error; a request ends with exactly one response,     *)
(* with status 400, 409, 201 or 500.                                       *)
(***************************************************************************)
IsInternalError(r) == r.status = 500 /\ r.code = "internal_error" /\ ~r.success

C7_Outcome ==
  /\ response.status \in {0, 400, 409, 201, 500}
  /\ (Done <=> response # NoResponse)
  /\ (Done /\ payload.built) =>
       /\ response.status = 201 <=>
            \E k \in 1..Len(attemptLog) :
               attemptLog[k].kind = "response" /\ attemptLog[k].status \in 200..299
       /\ response.status = 201 =>
            /\ response.success
            /\ response.orderId = attemptLog[Len(attemptLog)].id
            /\ thrown = NoError
       /\ response.status # 201 =>
            /\ IsInternalError(response)
            /\ thrown.call = Len(attemptLog)
  /\ (Done /\ (env = "invalid" \/ ~body.json)) => IsInternalError(response)
  /\ (Done /\ env = "nocreds" /\ body \in WellFormedBodies) =>
       IsInternalError(response)

C7_OutcomeMapping ==
  /\ []C7_Outcome
  /\ [][response # NoResponse => response' = response]_vars

\* 201 after one retry
C7_Witness ==
  /\ Done /\ response.status = 201 /\ response.orderId = 2
  /\ Len(attemptLog) = 2

(***************************************************************************)
(* C8  Ordering within one request: the snapshot is built only after the   *)
(* validation of all line items has finished with zero errors; the first   *)
(* POST /orders is issued only after the snapshot is built; no product or  *)
(* variation fetch is issued after the first POST /orders.                 *)
(***************************************************************************)
Fetches == {"GET_product", "GET_variation"}

ValidationSettled ==
  /\ Len(productResults) = Len(body.line_items)
  /\ Len(variationResults) = Len(body.line_items)
  /\ \A i \in 1..Len(body.line_items) :
       productResults[i] # Pending /\ variationResults[i] # Pending

C8_Ordering ==
  /\ priceSnapshot.built <=> Issued("snapshot") = 1
  /\ Issued("snapshot") <= 1
  /\ priceSnapshot.built => (ValidationSettled /\ validationErrors = <<>>)
  /\ \A i \in 1..Len(calls) :
       /\ calls[i] = "snapshot" =>
            \A j \in 1..Len(calls) : calls[j] \in Fetches => j < i
       /\ calls[i] = "POST_orders" =>
            /\ \E j \in 1..(i - 1) : calls[j] = "snapshot"
            /\ \A j \in 1..Len(calls) : calls[j] \in Fetches => j < i

\* a committed request with a variation fetch and a retried order call
C8_Witness ==
  /\ Done /\ response.status = 201
  /\ Issued("GET_variation") = 1 /\ Issued("POST_orders") = 2

(***************************************************************************)
(* C9  Status transition guard: isValidStatusTransition(from, to) is true  *)
(* exactly for the pairs of the table; nothing leaves refunded or          *)
(* completed, nothing enters pending, nothing stays where it is.           *)
(***************************************************************************)
TransitionTable ==
  {<<"pending", "paid">>, <<"pending", "failed">>, <<"pending", "cancelled">>,
   <<"paid", "fulfilled">>, <<"paid", "refunded">>, <<"paid", "cancelled">>,
   <<"failed", "cancelled">>,
   <<"cancelled", "refunded">>,
   <<"fulfilled", "completed">>, <<"fulfilled", "refunded">>}

IsInitialEntry(e, actor) ==
  e.fromStatus = "null" /\ e.toStatus = "pending" /\ e.actor = actor

C10_InitialOrderState ==
  /\ Issued("POST_orders") > 0 => payload.built
  /\ payload.built =>
       /\ payload.status = "pending"
       /\ payload.set_paid = FALSE
       /\ payload.billing = body.billing
       /\ payload.shipping = payload.billing
       /\ Len(payload.history) = 1
       /\ IsInitialEntry(payload.history[1], "customer")
  /\ historyEntry # NoEntry =>
       /\ historyEntry.reasonId = orderId
       /\ IsInitialEntry(historyEntry,
                         IF actorArg = "undefined" THEN "customer" ELSE actorArg)

\* an order was posted for the second address, and the helper was called
\* without an actor for order 2
C10_Witness ==
  /\ Issued("POST_orders") > 0 /\ payload.billing = "addrB"
  /\ historyEntry # NoEntry /\ actorArg = "undefined" /\ orderId = 2
  /\ historyEntry.actor = "customer"

(***************************************************************************)
(* C11  Price snapshot arithmetic: each item's unit_price is the price     *)
(* string of the resolved product unchanged, its total_price is unit_price *)
(* times quantity rounded to 2 decimals, subtotal is the sum of the items' *)
(* total_price values, total_tax is 0.00 and total equals subtotal.        *)
(***************************************************************************)
\* x thousandths round to c hundredths
RoundsTo(x, c) == 10 * c - 5 <= x /\ x <= 10 * c + 5

RECURSIVE SumTotalPrice(_)
SumTotalPrice(items) ==
  IF items = <<>> THEN 0
  ELSE Head(items).total_price + SumTotalPrice(Tail(items))

C11_SnapshotArithmetic ==
  priceSnapshot.built =>
    /\ Len(priceSnapshot.items) = Len(body.line_items)
    /\ \A i \in 1..Len(priceSnapshot.items) :
         LET item == priceSnapshot.items[i]
             resolved == MapGet(productsToValidate, item.product_id).product
         IN /\ item.unit_price = resolved.price
            /\ RoundsTo(parsePrice(item.unit_price) * item.quantity,
                        item.total_price)
    /\ priceSnapshot.subtotal = SumTotalPrice(priceSnapshot.items)
    /\ priceSnapshot.total_tax = 0
    /\ priceSnapshot.total = priceSnapshot.subtotal

(***************************************************************************)
(* C12  Every response of a checkout request (400, 409, 500, 201) carries  *)
(* the requestId made at the start of that request, and so do the          *)
(* request_id of its price snapshot and the _checkout_request_id of its    *)
(* order payload, also when several requests interleave.                   *)
(***************************************************************************)
Started(r) == requests[r].requestId # NoRequestId
InFlight(r) == requests[r].pc \notin {"idle", "done"}

C12_RequestIdState ==
  \A r \in DOMAIN requests :
    LET q == requests[r] IN
    /\ (q.pc # "idle") <=> Started(r)
    /\ (q.pc = "done") <=> (q.response # NoResponse)
    /\ q.response.status \in {0, 400, 409, 500, 201}
    /\ q.response # NoResponse => q.response.requestId = q.requestId
    /\ q.priceSnapshot.built => q.priceSnapshot.request_id = q.requestId
    /\ q.payload.built =>
         /\ q.payload.checkout_request_id = q.requestId
         /\ q.payload.snapshot.request_id = q.requestId
    /\ \A r2 \in DOMAIN requests :
         (r2 # r /\ Started(r) /\ Started(r2)) =>
           requests[r2].requestId # q.requestId

C12_RequestIdCorrelation ==
  /\ []C12_RequestIdState
  /\ [][\A r \in DOMAIN requests :
          Started(r) => requests'[r].requestId = requests[r].requestId]_vars

\* two requests that overlapped: the second started while the first was
\* waiting for its backend, the first was answered 201 after the second had
\* been answered 409
C12_Witness ==
  /\ requests[1].response.status = 201 /\ requests[2].response.status = 409
  /\ requests[1].requestId = 1 /\ requests[2].requestId = 2
  /\ Len(logEntries) = 4
  /\ logEntries[3].by = 2 /\ logEntries[4].by = 1

(***************************************************************************)
(* C13  Two interleaving checkout requests share no mutable state in this  *)
(* process: what one request writes is neither overwritten nor read by the *)
(* other. For the logger's request context: while a request is in flight   *)
(* the context holds that request's id, and every log entry written while  *)
(* handling a request carries that request's id.                           *)
(***************************************************************************)
C13_NoSharedMutableState ==
  /\ \A r \in DOMAIN requests :
       InFlight(r) => _requestId = requests[r].requestId
  /\ \A i \in 1..Len(logEntries) :
       logEntries[i].requestId = requests[logEntries[i].by].requestId

(***************************************************************************)
(* C15  Admin rate limit: for every admin id, in any time interval of 60   *)
(* seconds at most 10 calls of checkAdminRateLimit return true; a call     *)
(* made when 10 calls of the last 60 seconds have returned true returns    *)
(* false.                                                                  *)
(***************************************************************************)
C15_AtMostTenPerMinute ==
  \A a \in DOMAIN admitted :
    Len(Recent(admitted[a], now)) <= RATE_LIMIT_MAX_REQUESTS

(***************************************************************************)
(* C14  Cache revalidation is admin-only: revalidatePath / revalidateTag   *)
(* is called for a request only if the request is authenticated with role  *)
(* admin, presents the matching secret (POST, when a secret is             *)
(* configured), and the rate limiter has let it through; a request         *)
(* answered 401, 403 or 429 causes no revalidation.                        *)
(***************************************************************************)
PresentsSecret(req) ==
  req.authorization = REVALIDATION_SECRET \/ req.secret = REVALIDATION_SECRET

C14_AdminOnlyRevalidation ==
  /\ revalidations # <<>> =>
       /\ revalidateRequest.role = "admin"
       /\ (revalidateRequest.method = "POST"
             /\ REVALIDATION_SECRET # "undefined") =>
            PresentsSecret(revalidateRequest)
       /\ rateLimitResult = <<revalidateRequest.userId, TRUE>>
       /\ adminActionLimits[revalidateRequest.userId].count
            <= RATE_LIMIT_MAX_REQUESTS
       /\ revalidateResponse = 200
  /\ revalidateResponse \in {401, 403, 429} => revalidations = <<>>
  /\ (revalidateResponse = 429) =>
       rateLimitResult = <<revalidateRequest.userId, FALSE>>

\* the tenth request of an admin within a window, a POST with the secret in
\* the query, revalidates a product
C14_Witness ==
  /\ revalidateResponse = 200
  /\ revalidateRequest.method = "POST"
  /\ REVALIDATION_SECRET = "s3cret"
  /\ revalidateRequest.secret = "s3cret"
  /\ revalidateRequest.authorization = "none"
  /\ Len(revalidations) = 5
  /\ adminActionLimits[1].count = RATE_LIMIT_MAX_REQUESTS

(***************************************************************************)
(* C16  Validator fan-out: the number of product fetches issued for a cart *)
(* equals the number of distinct product_id values in the cart.            *)
(***************************************************************************)
DistinctProductIdCount ==
  Cardinality({body.line_items[i].product_id : i \in 1..Len(body.line_items)})

C16_OneFetchPerDistinctProduct ==
  pc \in {"products", "variations", "submitting", "sleeping"} =>
    Issued("GET_product") = DistinctProductIdCount

(***************************************************************************)
(* C17  Duplicate product ids: in a cart of line items without variation,  *)
(* when some line item requests more than the non-null stock_quantity of   *)
(* its product, a stock error is reported for that product and no order is *)
(* created, whatever the order of the line items.                          *)
(***************************************************************************)
NoVariations ==
  \A i \in 1..Len(body.line_items) : ~HasVariation(body.line_items[i])

\* every fetch of one product returned the same record
ConsistentFetches ==
  \A i, j \in 1..Len(body.line_items) :
    body.line_items[i].product_id = body.line_items[j].product_id =>
      productResults[i] = productResults[j]

Overdrawn(i) ==
  /\ productResults[i].kind = "ok"
  /\ productResults[i].stock_quantity # Null
  /\ productResults[i].stock_quantity < body.line_items[i].quantity

C17_EachDuplicateChecked ==
  (ValidationFinished /\ Done /\ NoVariations /\ ConsistentFetches) =>
    \A i \in 1..Len(body.line_items) :
      Overdrawn(i) =>
        /\ response.status = 409
        /\ \E e \in Range(response.validation_errors) :
             e.field = "stock"
             /\ e.product_id = body.line_items[i].product_id
        /\ Issued("POST_orders") = 0

(***************************************************************************)
(* C18  A line item with a variation is validated against the variation    *)
(* record instead of the parent product: when its variation is             *)
(* purchasable, not out of stock and has sufficient stock, no stock or     *)
(* availability error is produced for it and the request is not aborted    *)
(* on its account, whatever the parent product's own purchasable flag,     *)
(* stock_status and stock_quantity are.                                    *)
(***************************************************************************)
VariationPasses(i) ==
  /\ HasVariation(body.line_items[i])
  /\ productResults[i].kind = "ok"
  /\ variationResults[i].kind = "ok"
  /\ ~FailsChecks(variationResults[i], body.line_items[i].quantity)

C18_VariationInsteadOfParent ==
  (ValidationFinished /\ DistinctProductIds) =>
    /\ \A i \in 1..Len(body.line_items) :
         VariationPasses(i) =>
           ~\E e \in Range(validationErrors) :
              /\ e.product_id = body.line_items[i].product_id
              /\ e.field \in {"stock", "availability"}
    /\ (\A i \in 1..Len(body.line_items) : VariationPasses(i)) =>
         (Done => response.status # 409)

(***************************************************************************)
(* C19  Every backend read failure during validation becomes a validation  *)
(* error with field availability: a product fetch that fails or finds      *)
(* nothing gives an availability error and keeps the product out of the    *)
(* resolved map; a variation fetch that fails gives an availability error; *)
(* only a variation that is absent (404) gives field variation. No read    *)
(* failure ends in a 500.                                                  *)
(***************************************************************************)
ReadFailed(i) ==
  \/ productResults[i].kind \in {"error", "notfound"}
  \/ variationResults[i].kind \in {"error", "notfound"}

C19_ReadFailureIsAvailability ==
  (ValidationFinished /\ DistinctProductIds) =>
    \A i \in 1..Len(body.line_items) :
      LET pid == body.line_items[i].product_id
          errorsOf(field) == {e \in Range(validationErrors) :
                               e.product_id = pid /\ e.field = field}
      IN /\ productResults[i].kind \in {"error", "notfound"} =>
              /\ errorsOf("availability") # {}
              /\ ~MapHas(productsToValidate, pid)
         /\ variationResults[i].kind = "error" =>
              /\ errorsOf("availability") # {}
              /\ errorsOf("variation") = {}
         /\ variationResults[i].kind = "notfound" =>
              errorsOf("variation") # {}
         /\ (ReadFailed(i) /\ Done) => response.status = 409

(***************************************************************************)
(* C20  Deterministic error order: in every 409 response validation_errors *)
(* is ordered by the position of the offending line item in the cart (all  *)
(* errors of line item i precede all errors of line item j when i < j),    *)
(* whatever the order in which the fetches complete and whatever check     *)
(* failed.                                                                 *)
(***************************************************************************)
\* the line item an error is about (the product ids of the cart are distinct)
ItemOf(e) ==
  CHOOSE i \in 1..Len(body.line_items) :
    body.line_items[i].product_id = e.product_id

C20_ErrorsInCartOrder ==
  (response.status = 409 /\ DistinctProductIds) =>
    \A a, b \in 1..Len(response.validation_errors) :
      a < b => ItemOf(response.validation_errors[a])
               <= ItemOf(response.validation_errors[b])

(***************************************************************************)
(* C21  All validation fetches are launched together: for a cart with a    *)
(* variation line item every variation fetch is issued before any product  *)
(* fetch of the request has completed, and the handler suspends until      *)
(* every product and variation fetch has resolved (nothing is answered or  *)
(* committed before).                                                      *)
(***************************************************************************)
VariationItems ==
  {i \in 1..Len(body.line_items) : HasVariation(body.line_items[i])}

SomeProductFetchCompleted ==
  \E i \in 1..Len(productResults) : productResults[i] # Pending

C21_FetchesLaunchedTogether ==
  pc \in {"products", "variations", "submitting", "sleeping", "done"}
  /\ Issued("GET_product") > 0 =>
    /\ SomeProductFetchCompleted =>
         Issued("GET_variation") = Cardinality(VariationItems)
    /\ (priceSnapshot.built \/ response.status = 409) => ValidationSettled

(***************************************************************************)
(* C22  Time-of-check/time-of-use gap: the pipeline takes no lock and      *)
(* validation is advisory only. Whether a request passes validation        *)
(* depends on the stock the backend has when the request reads it and on   *)
(* nothing else, so with stock_quantity 1 and two concurrent requests each *)
(* ordering quantity 1 there is an interleaving in which both pass         *)
(* validation with zero errors and both issue an order-creation call.      *)
(***************************************************************************)
Enough(stock, quantity) == stock = Null \/ stock >= quantity

C22_ValidationIsAdvisory ==
  [][\A r \in 1..NumRequests :
       (requests[r].pc = "products" /\ requests'[r].pc # "products") =>
         /\ requests'[r].pc \in {"submitting", "done"}
         /\ requests'[r].pc = "submitting" <=>
              Enough(backendStock, requests[r].body.line_items[1].quantity)
         /\ requests'[r].pc = "done" => requests'[r].response.status = 409
         /\ UNCHANGED backendVars]_vars

\* the last unit is still there, and two requests have passed validation and
\* have their createOrder call in flight
C22_Witness ==
  /\ backendStock = 1 /\ backendOrders = EmptyBag
  /\ \E r1, r2 \in 1..NumRequests :
       /\ r1 # r2
       /\ \A r \in {r1, r2} :
            /\ requests[r].pc = "submitting"
            /\ requests[r].payload.built
            /\ requests[r].payload.line_items[1].quantity = 1
            /\ requests[r].attempt = 0

(***************************************************************************)
(* C23  Order creation is not idempotent under retry: when the backend     *)
(* creates the order on an attempt that is reported to the handler as a    *)
(* transient failure, withRetry re-issues the same payload (nothing in it  *)
(* tells the attempts apart), so one checkout request can leave two, and   *)
(* up to maxRetries + 1 = 3, orders in the backend.                        *)
(***************************************************************************)
\* the orders in the backend that carry the request id of request r
OrdersOf(r) ==
  {order \in BagToSet(backendOrders) :
     order.checkout_request_id = requests[r].requestId}
\* how many orders request r has created
Created_By(r) ==
  IF BagIn(requests[r].payload, backendOrders)
  THEN CopiesIn(requests[r].payload, backendOrders) ELSE 0

C23_OrdersOfOneRequest ==
  \A r \in 1..NumRequests :
    /\ OrdersOf(r) \subseteq {requests[r].payload}
    /\ Created_By(r) <= maxRetries + 1
    /\ Created_By(r) <= requests[r].attempt + 1

C23_RetryResubmits ==
  /\ []C23_OrdersOfOneRequest
  /\ [][\A r \in 1..NumRequests :
          (/\ requests[r].pc = "submitting"
           /\ requests'[r].pc # "submitting"
           /\ BagCardinality(backendOrders') = BagCardinality(backendOrders) + 1
           /\ requests'[r].response.status # 201
           /\ requests[r].attempt < maxRetries)
          => requests'[r].pc = "sleeping"]_vars

\* one request, answered 500, with three orders in the backend
C23_Witness ==
  \E r \in 1..NumRequests :
    /\ requests[r].pc = "done"
    /\ requests[r].response.status = 500
    /\ Created_By(r) = maxRetries + 1

(***************************************************************************)
(* C24  Backoff delay: before retry number n+1 (n the 0-indexed index of   *)
(* the failed attempt) withRetry sleeps min(100 * 2^n, 1000) ms plus a     *)
(* jitter in [0, 50) ms: the base delays of one run are 100 ms then        *)
(* 200 ms, no delay exceeds 1050 ms, and there is no sleep after the last  *)
(* attempt or after a non-transient failure.                               *)
(***************************************************************************)
\* the failure the handler saw last is one withRetry retries
LastFailureTransient ==
  /\ attemptLog # <<>>
  /\ LET o == attemptLog[Len(attemptLog)]
         error == createOrderError(o, Len(attemptLog))
     IN ~Succeeded(o) /\ isTransientError(StatusCodeOf(error), error)

C24_SleepState ==
  /\ pc = "sleeping" =>
       /\ attempt < maxRetries
       /\ Len(attemptLog) = attempt + 1
       /\ LastFailureTransient
       /\ sleepMs >= Min(initialDelayMs * Pow2(attempt), maxDelayMs)
       /\ sleepMs < Min(initialDelayMs * Pow2(attempt), maxDelayMs) + jitterMs
       /\ sleepMs <= maxDelayMs + jitterMs
       /\ attempt = 0 => sleepMs \in 100..149
       /\ attempt = 1 => sleepMs \in 200..249
  /\ pc # "sleeping" => sleepMs = 0

C24_BackoffDelay ==
  /\ []C24_SleepState
  /\ [][(pc = "submitting" /\ pc' # "submitting") =>
          (pc' = "sleeping" <=>
             (Len(attemptLog') <= maxRetries /\ LastFailureTransient'))]_vars

\* the second sleep of a run, with the largest jitter
C24_Witness ==
  /\ pc = "sleeping" /\ attempt = 1
  /\ sleepMs = 2 * initialDelayMs + jitterMs - 1

(***************************************************************************)
(* C25  assertEnvironment re-runs the validation on every call: it throws  *)
(* if and only if a variable required for the current environment is       *)
(* unset at the time of that call, so after the environment has changed    *)
(* the next call reflects the new state.                                   *)
(***************************************************************************)
C25_AssertReflectsEnvironment ==
  [][assertCalls' = assertCalls + 1 =>
       (assertResult' = "threw" <=>
          ~(RequiredKeys(nodeEnv) \subseteq processEnv))]_vars

(***************************************************************************)
(* C26  Client self-healing after a failed checkout: on a 409 the client   *)
(* removes from the cart exactly the products that have a stock, variation *)
(* or availability validation error in the response and leaves every other *)
(* cart item and its quantity unchanged; the cart is cleared only after a  *)
(* successful (2xx) response, never on a 400, 409 or 500 response or on a  *)
(* network failure.                                                        *)
(***************************************************************************)
\* the products the response reports as out of stock, missing or unavailable
ReportedUnavailable(res) ==
  {res.validation_errors[k].product_id :
     k \in {j \in 1..Len(res.validation_errors) :
              res.validation_errors[j].field
                \in {"stock", "variation", "availability"}}}

C26_ClientSelfHealing ==
  [][(isSubmitting /\ ~isSubmitting') =>
       LET res == clientResponse'
           kept == SelectSeq(cartItems,
                             LAMBDA item : item.id \notin ReportedUnavailable(res))
       IN /\ res.status = 409 => cartItems' = kept
          /\ (res = FetchThrew \/ res.status \in {400, 500}) =>
               cartItems' = cartItems
          /\ (cartItems # <<>> /\ cartItems' = <<>>) =>
               \/ ResOk(res.status)
               \/ res.status = 409 /\ kept = <<>>
          /\ ResOk(res.status) => cartItems' = <<>>]_vars

\* a 409 with an availability error for one of two products has arrived:
\* that product is gone, the other is in the cart with the quantity sent
C26_Witness ==
  /\ ~isSubmitting /\ clientResponse.status = 409
  /\ lastCartOp.op = "removeOutOfStockItems" /\ Len(lastCartOp.ids) = 1
  /\ \E k \in 1..Len(clientResponse.validation_errors) :
       clientResponse.validation_errors[k].field = "availability"
  /\ clientResponse.out_of_stock_product_ids = <<>>
  /\ Len(cartItems) = 1 /\ cartItems[1].quantity = 2
  /\ cartItems[1].id \notin ReportedUnavailable(clientResponse)

(***************************************************************************)
(* C30  Cart store invariants: starting from an empty cart, after any      *)
(* sequence of addToCart, removeFromCart, updateQuantity (integer          *)
(* quantity), removeOutOfStockItems and clearCart, no two cart items have  *)
(* the same product id, every quantity is >= 1, and cartCount equals the   *)
(* sum of the quantities; updateQuantity with a quantity below 1 removes   *)
(* the item, and updateQuantity or removeFromCart for a product that is    *)
(* not in the cart leaves the cart unchanged.                              *)
(***************************************************************************)
InCart(items, id) == \E i \in 1..Len(items) : items[i].id = id

\* the quantity of product id in the cart, over all its entries
RECURSIVE QuantityOf(_, _)
QuantityOf(items, id) ==
  IF items = <<>> THEN 0
  ELSE (IF Head(items).id = id THEN Head(items).quantity ELSE 0)
       + QuantityOf(Tail(items), id)

RECURSIVE SumOver(_, _)
SumOver(items, ids) ==
  IF ids = {} THEN 0
  ELSE LET id == CHOOSE x \in ids : TRUE
       IN QuantityOf(items, id) + SumOver(items, ids \ {id})

C30_CartState ==
  /\ \A i, j \in 1..Len(cartItems) :
       cartItems[i].id = cartItems[j].id => i = j
  /\ \A i \in 1..Len(cartItems) : cartItems[i].quantity >= 1
  /\ cartCount(cartItems) = SumOver(cartItems, ProductIds)

C30_CartStore ==
  /\ []C30_CartState
  /\ [][/\ (lastCartOp'.op = "updateQuantity" /\ lastCartOp'.quantity < 1) =>
             ~InCart(cartItems', lastCartOp'.id)
        /\ (/\ lastCartOp'.op \in {"updateQuantity", "removeFromCart"}
            /\ ~InCart(cartItems, lastCartOp'.id)) =>
             cartItems' = cartItems]_vars

\* two products were submitted; while the answer is awaited
\* updateQuantity(id, 0) is called for one of them, and the other is left
\* with its quantity
C30_Witness ==
  /\ isSubmitting /\ Len(clientLineItems) = 2
  /\ lastCartOp.op = "updateQuantity" /\ lastCartOp.quantity = 0
  /\ \E i \in 1..2 : clientLineItems[i].product_id = lastCartOp.id
  /\ Len(cartItems) = 1 /\ cartCount(cartItems) = 2
  /\ cartItems[1].id # lastCartOp.id

(***************************************************************************)
(* C27  On every committed checkout the price snapshot and the order       *)
(* payload agree with the submitted cart: the snapshot has exactly one     *)
(* item per submitted line item, in cart order, each with the product_id,  *)
(* variation_id and quantity of its line item (also when two line items    *)
(* share a product_id), and the payload's line_items are the submitted     *)
(* line items in the same order.                                           *)
(***************************************************************************)
C27_SnapshotAgreesWithCart ==
  priceSnapshot.built =>
    /\ Len(priceSnapshot.items) = Len(body.line_items)
    /\ \A i \in 1..Len(body.line_items) :
         /\ priceSnapshot.items[i].product_id = body.line_items[i].product_id
         /\ priceSnapshot.items[i].variation_id
              = body.line_items[i].variation_id
         /\ priceSnapshot.items[i].quantity = body.line_items[i].quantity
    /\ payload.built
    /\ payload.line_items = body.line_items

(***************************************************************************)
(* C28  Log correlation under interleaving: every log entry emitted        *)
(* through the logger while handling a checkout request carries that       *)
(* request's own requestId, also when a second checkout request starts or  *)
(* finishes (startRequest / clearRequestContext) while the first is        *)
(* suspended at a backend call.                                            *)
(***************************************************************************)
C28_LogCorrelation ==
  \A i \in 1..Len(logEntries) :
    LET entry == logEntries[i] IN
    /\ entry.requestId # NoRequestId
    /\ \A r \in DOMAIN requests :
         entry.requestId = requests[r].requestId <=> r = entry.by

(***************************************************************************)
(* C29  The order-status transition graph is acyclic: every sequence of    *)
(* statuses that starts at pending and in which each step satisfies        *)
(* isValidStatusTransition has at most 3 transitions, never visits a       *)
(* status twice, and can always be extended until it ends in refunded or   *)
(* completed (no non-terminal status is a dead end).                       *)
(***************************************************************************)
\* the statuses an order has gone through, oldest first
StatusPath(history) == [k \in 1..Len(history) |-> history[k].toStatus]

\* from status s some sequence of at most n valid transitions ends in
\* refunded or completed
RECURSIVE ReachesFinal(_, _)
ReachesFinal(s, n) ==
  \/ s \in {"refunded", "completed"}
  \/ n > 0 /\ \E t \in OrderStatus :
                isValidStatusTransition(s, t) /\ ReachesFinal(t, n - 1)

C29_TransitionGraphAcyclic ==
  \A id \in DOMAIN statusHistory :
    LET path == StatusPath(statusHistory[id]) IN
    /\ path[1] = "pending"
    /\ \A k \in 2..Len(path) : isValidStatusTransition(path[k - 1], path[k])
    /\ Len(path) - 1 <= 3
    /\ \A j, k \in 1..Len(path) : path[j] = path[k] => j = k
    /\ ReachesFinal(path[Len(path)], 3 - (Len(path) - 1))
    /\ path[Len(path)] \notin {"refunded", "completed"} =>
         \E t \in OrderStatus : isValidStatusTransition(path[Len(path)], t)

\* one order has gone pending, paid, fulfilled, completed, another pending,
\* failed, cancelled, refunded
C29_Witness ==
  \E a, b \in DOMAIN statusHistory :
    /\ StatusPath(statusHistory[a])
         = <<"pending", "paid", "fulfilled", "completed">>
    /\ StatusPath(statusHistory[b])
         = <<"pending", "failed", "cancelled", "refunded">>

====
